---- MODULE Spec2Model ----
(***************************************************************************)
(* Navigation control subsystem of the Picar-X robot repository.           *)
(*                                                                         *)
(* The repository holds several independent programs that share the        *)
(* hardware handle (px).  The variable prog says which of them runs:       *)
(*   "maze"     Final/maze_navigation_agent.py  (sequencer + monitor       *)
(*              thread)                                                    *)
(*   "simple"   Final/simple_maze_agent.py      (sequencer with inline     *)
(*              polling)                                                   *)
(*   "center"   ruthwika/navigation_agent.py    center_target_until_       *)
(*              centered                                                   *)
(*   "approach" ruthwika/navigation_agent.py    approach_object_slowly     *)
(* Lengths are integers in tenths of a centimetre; raw rangefinder         *)
(* samples are in hundredths.  Durations are counted in poll ticks.        *)
(***************************************************************************)
EXTENDS Integers, Sequences, FiniteSets, TLC

\* ------------------------------------------------------------------ bounds
MaxCmds == 2
MaxBatches == 2
DurationTicks == 3

\* ------------------------------------------------------- program constants
MAZE_BLACK_LINE_THRESHOLD == 1000
FORWARD_BLACK_LINE_THRESHOLD == 200
BACKWARD_BLACK_LINE_THRESHOLD == 1000

VARIABLES
    prog,                 \* which program of the repository is running
    hw_error_at,          \* index of the first command of the batch whose primitive raised, or -1
    \* hardware behind get_picarx()
    motor,                \* "stop" | "forward" | "backward"
    motor_speed,          \* speed last handed to px.forward / px.backward
    cali_dir_value,       \* px.cali_dir_value
    px_dir_servo,         \* angle last sent to the steering servo
    servo_angles,         \* _servo_angles['dir_servo']
    gray,                 \* what the line sensors currently see
    \* sequencer (navigation_state / execution_state and locals)
    mpc, batch, ncmds, i, cur, boundary_hit, last_action, execution_log,
    successful_commands, brk, result, correction, elapsed,
    \* monitor thread of the maze agent
    grayscale_thread, stop_grayscale_monitoring, grayscale_monitoring,
    sample, boundary_log,
    \* history of the current batch / trip
    dispatched, raised_during, trip_in_cmd, trip_stop_issued, dropped_in_cmd,
    sampled_in,           \* the current command, if in flight at a tripping sample not yet logged
    \* approach_object_slowly (locals and inputs)
    apc, step_count, stop_distance, us_text, ultrasonic_distance, vision_distance,
    current_distance, distance_source, step_size, a_result, fallback_run,
    \* center_target_until_centered (locals)
    cpc, attempt, retry, reply, turn_instructions, fresh_reply, turn_direction,
    turn_angle, turn_duration, position, logic_error, acted, turn_issued, c_result,
    \* ruthwika/primitives.py called directly (module globals and the caller's position)
    ppc,                  \* "idle" | "sleeping": the caller is inside time.sleep(duration)
    call,                 \* the primitive called last, with its arguments
    continuous_movement,  \* _continuous_movement
    cam_angles,           \* _servo_angles['cam_pan'], _servo_angles['cam_tilt']
    px_cam,               \* angles last sent to the camera servos
    wheel_speed,          \* speed last handed to px.set_motor_speed by set_motor_speed
    \* picarx_primitives.rotate_in_place and the init_camera functions
    wheels,               \* speeds rotate_in_place handed to motor 1 (left) and motor 2 (right)
    rot_duration,         \* duration rotate_in_place derived, in milliseconds
    flask_start,          \* whether Vilib.flask_start ever becomes true
    cam_wait,             \* time init_camera has waited, in poll ticks
    vilib_initialized,    \* _vilib_initialized
    cam_result,           \* what init_camera returned or printed
    \* the loops of picarx_agent_smart.execute_adaptive_plan and of
    \* ruthwika/obstacle_avoidance_agent.navigate_around_obstacles
    gpc,                  \* position of the loop
    iteration,            \* execute_adaptive_plan: iteration
    plan_distance,        \* execute_adaptive_plan: distance, in tenths of a cm, or None
    plan_result,          \* what execute_adaptive_plan returned
    attempt_count,        \* navigate_around_obstacles: self.attempt_count
    distance_result,      \* navigate_around_obstacles: the text get_ultrasonic_distance returned
    oa_current_distance,  \* navigate_around_obstacles: current_distance, in tenths of a cm
    navigation_active,    \* navigate_around_obstacles: self.navigation_active
    nav_result            \* what navigate_around_obstacles returned

hwvars == <<motor, motor_speed, cali_dir_value, px_dir_servo, servo_angles>>
seqvars == <<mpc, batch, ncmds, i, cur, boundary_hit, last_action, execution_log,
             successful_commands, brk, result, correction, elapsed>>
monvars == <<grayscale_thread, stop_grayscale_monitoring, grayscale_monitoring,
             sample, boundary_log>>
appvars == <<apc, step_count, stop_distance, us_text, ultrasonic_distance, vision_distance,
             current_distance, distance_source, step_size, a_result, fallback_run>>
cenvars == <<cpc, attempt, retry, reply, turn_instructions, fresh_reply, turn_direction,
             turn_angle, turn_duration, position, logic_error, acted, turn_issued, c_result>>
navvars == <<appvars, cenvars>>
histvars == <<dispatched, raised_during, trip_in_cmd, trip_stop_issued, dropped_in_cmd, sampled_in>>
unitvars == <<wheels, rot_duration, flask_start, cam_wait, vilib_initialized, cam_result>>
agentvars == <<gpc, iteration, plan_distance, plan_result, attempt_count, distance_result,
               oa_current_distance, navigation_active, nav_result>>
primvars == <<ppc, call, continuous_movement, cam_angles, px_cam, wheel_speed, unitvars>>

\* ------------------------------------------------------------- input sets
MovementActions == {"move_forward", "move_backward", "turn_left", "turn_right"}

CommandSet ==
    { [action |-> "move_forward",  speed |-> 30,  angle |-> 0],
      [action |-> "move_backward", speed |-> 150, angle |-> 0],
      [action |-> "turn_left",     speed |-> 50,  angle |-> 0],
      [action |-> "turn_right",    speed |-> 50,  angle |-> 0],
      [action |-> "set_dir_servo", speed |-> 30,  angle |-> 45],
      [action |-> "spin",          speed |-> 30,  angle |-> 0] }

NoCommand == [action |-> "none", speed |-> 0, angle |-> 0]

\* execute_command_list of the maze agent, on hardware that works ("maze") and
\* on hardware whose px calls may raise ("maze_hw")
MazeProgs == {"maze", "maze_hw"}

\* the commands of a batch; the faulty-hardware program is run on motions only
CommandsOf(p) ==
    IF p \in {"maze_hw", "simple_hw"}
    THEN { c \in CommandSet : c.action \in {"move_forward", "turn_left"} }
    ELSE CommandSet

\* execute_commands_with_monitoring of the simple agent, on hardware that works
\* ("simple") and on hardware whose px calls may raise ("simple_hw")
SimpleProgs == {"simple", "simple_hw"}

ClearGray == <<1500, 1500, 1500>>
GraySamples == { ClearGray, <<1500, 500, 1500>>, <<100, 1500, 1500>> }

\* names importable from final_primitives (its top-level defs)
FinalPrimitivesNames ==
    { "get_picarx", "reset", "set_motor_speed", "move_forward", "move_backward",
      "turn_left", "turn_right", "get_servo_angles", "get_dir_servo_angle",
      "get_cam_pan_angle", "get_cam_tilt_angle", "set_dir_servo",
      "set_cam_pan_servo", "set_cam_tilt_servo", "get_ultrasound",
      "get_grayscale", "init_camera", "capture_image", "take_photo_vilib",
      "close_camera", "set_line_reference", "set_cliff_reference",
      "get_line_status", "get_cliff_status" }

\* ---------------------------------------------------------------- helpers
\* any(value < threshold for value in grayscale_values)
AnyBelow(vals, threshold) == \E k \in 1..Len(vals) : vals[k] < threshold

IsAlive(t) == t \notin {"none", "dead"}

\* final_primitives.set_dir_servo clamps to [-30, 30]
ClampDirServo(angle) == IF angle > 30 THEN 30 ELSE IF angle < -30 THEN -30 ELSE angle

\* cali_dir_value a Final primitive sets before px.forward / px.backward
CaliFor(action) ==
    CASE action = "turn_left"  -> <<-1, 1>>
      [] action = "turn_right" -> <<1, -1>>
      [] OTHER                 -> cali_dir_value

\* px call a Final primitive makes first
PxCall(action) == IF action = "move_backward" THEN "backward" ELSE "forward"


NoAction == [b |-> 0, k |-> -1]
ThisAction == [b |-> batch, k |-> i]

\* ======================================================================
\* Final/maze_navigation_agent.py : MazeNavigationAgent.execute_command_list
\* ======================================================================

\* log entry appended after execute_single_command returned normally; the
\* entry's 'command' and 'result' fields are copies of the dispatched command
\* and of the returned text; they are only printed (json.dumps) and never
\* tested by the sequencer, so the entry keeps the other three fields
MazeLogEntry(idx, cmd) ==
    [command_index |-> idx, success |-> TRUE, boundary_hit |-> FALSE]

\* the else-branch of "if not navigation_state['boundary_hit']" breaks the loop
MazeBreaks_Never(hit) == FALSE
MazeBreaks(hit) == hit

\* get_course_correction: newest log entry with boundary_hit, -1 when none
GetCourseCorrection(log) ==
    LET S == { k \in 1..Len(log) : log[k].boundary_hit }
    IN  IF S = {} THEN -1
        ELSE log[CHOOSE k \in S : \A m \in S : m <= k].command_index

\* for i, command in enumerate(commands): reset the boundary flag
MazeFor ==
    /\ prog \in MazeProgs /\ mpc = "for"
    /\ IF i < ncmds
       THEN /\ \E c \in CommandsOf(prog) : cur' = c
            /\ boundary_hit' = FALSE
            /\ mpc' = "arm"
       ELSE /\ mpc' = "after_loop"
            /\ UNCHANGED <<cur, boundary_hit>>
    /\ trip_in_cmd' = FALSE /\ sampled_in' = NoAction
    /\ UNCHANGED <<prog, agentvars, hw_error_at, primvars, navvars, hwvars, gray, batch, ncmds, i, last_action, execution_log,
                   successful_commands, brk, result, correction, elapsed, monvars,
                   dispatched, raised_during, trip_stop_issued, dropped_in_cmd>>

\* body of start_grayscale_monitoring(): return if the thread is alive, else
\* clear the event, set the flag and start a new daemon thread
StartMonitoringBody ==
    IF IsAlive(grayscale_thread)
    THEN UNCHANGED <<grayscale_thread, stop_grayscale_monitoring, grayscale_monitoring>>
    ELSE /\ stop_grayscale_monitoring' = FALSE
         /\ grayscale_monitoring' = TRUE
         /\ grayscale_thread' = "while"

\* body of stop_grayscale_monitoring(): set the event, clear the flag; no join
StopMonitoringBody ==
    /\ stop_grayscale_monitoring' = TRUE
    /\ grayscale_monitoring' = FALSE

\* start_grayscale_monitoring()
StartGrayscaleMonitoring ==
    /\ prog \in MazeProgs /\ mpc = "arm"
    /\ StartMonitoringBody
    /\ mpc' = "dispatch"
    /\ UNCHANGED <<prog, agentvars, hw_error_at, primvars, navvars, hwvars, gray, batch, ncmds, i, cur, boundary_hit, last_action,
                   execution_log, successful_commands, brk, result, correction, elapsed,
                   sample, boundary_log, histvars>>

\* execute_single_command -> *_tool -> final_primitives, up to time.sleep(duration)
ExecuteSingleCommand ==
    /\ prog \in MazeProgs /\ mpc = "dispatch"
    /\ dispatched' = dispatched \cup {i}
    /\ IF cur.action \in MovementActions
       THEN /\ cali_dir_value' = CaliFor(cur.action)
            /\ motor' = PxCall(cur.action)
            /\ motor_speed' = cur.speed
            /\ mpc' = "in_flight"
            /\ UNCHANGED <<px_dir_servo, servo_angles, last_action>>
       ELSE IF cur.action = "set_dir_servo"
       THEN /\ px_dir_servo' = ClampDirServo(cur.angle)
            /\ servo_angles' = ClampDirServo(cur.angle)
            /\ last_action' = ThisAction
            /\ mpc' = "returned"
            /\ UNCHANGED <<motor, motor_speed, cali_dir_value>>
       ELSE /\ mpc' = "returned"
            /\ UNCHANGED <<hwvars, last_action>>
    /\ UNCHANGED <<prog, agentvars, hw_error_at, primvars, navvars, gray, batch, ncmds, i, cur, boundary_hit, execution_log,
                   successful_commands, brk, result, correction, elapsed, monvars,
                   raised_during, trip_in_cmd, trip_stop_issued, dropped_in_cmd, sampled_in>>

\* the primitive's sleep ends: px.stop(), calibration back, last_action set by the tool
PrimitiveReturns ==
    /\ prog \in MazeProgs /\ mpc = "in_flight"
    /\ motor' = "stop"
    /\ cali_dir_value' = IF cur.action \in {"turn_left", "turn_right"} THEN <<1, 1>>
                         ELSE cali_dir_value
    /\ servo_angles' = 0
    /\ last_action' = ThisAction
    /\ mpc' = "returned"
    /\ UNCHANGED <<prog, agentvars, hw_error_at, primvars, navvars, motor_speed, px_dir_servo, gray, batch, ncmds, i, cur, boundary_hit,
                   execution_log, successful_commands, brk, result, correction, elapsed,
                   monvars, histvars>>

\* px.forward(speed) / px.backward(speed) raises inside the primitive: the wheels
\* may or may not have started; nothing after the call in the primitive runs,
\* the tool's except branch returns "Error moving ...: ..." to the sequencer
PrimitiveRaises ==
    /\ prog = "maze_hw" /\ mpc = "dispatch"
    /\ cur.action \in MovementActions
    /\ dispatched' = dispatched \cup {i}
    /\ cali_dir_value' = CaliFor(cur.action)
    /\ \E started \in BOOLEAN :
          /\ motor' = IF started THEN PxCall(cur.action) ELSE motor
          /\ motor_speed' = IF started THEN cur.speed ELSE motor_speed
    /\ hw_error_at' = IF hw_error_at = -1 THEN i ELSE hw_error_at
    /\ mpc' = "returned"
    /\ UNCHANGED <<prog, agentvars, primvars, navvars, px_dir_servo, servo_angles, gray, batch, ncmds, i,
                   cur, boundary_hit, last_action, execution_log, successful_commands, brk,
                   result, correction, elapsed, monvars, raised_during, trip_in_cmd,
                   trip_stop_issued, dropped_in_cmd, sampled_in>>

\* px.stop() raises after the sleep: the wheels keep turning, the calibration
\* is not put back, and the tool's except branch returns its error string
PrimitiveStopRaises ==
    /\ prog = "maze_hw" /\ mpc = "in_flight"
    /\ hw_error_at' = IF hw_error_at = -1 THEN i ELSE hw_error_at
    /\ mpc' = "returned"
    /\ UNCHANGED <<prog, agentvars, primvars, navvars, hwvars, gray, batch, ncmds, i, cur, boundary_hit,
                   last_action, execution_log, successful_commands, brk, result, correction,
                   elapsed, monvars, histvars>>

\* append the log entry, then test navigation_state['boundary_hit']
MazeAfterCommand ==
    /\ prog \in MazeProgs /\ mpc = "returned"
    /\ execution_log' = Append(execution_log, MazeLogEntry(i, cur))
    /\ brk' = MazeBreaks(boundary_hit)
    /\ successful_commands' = IF boundary_hit THEN successful_commands
                              ELSE successful_commands + 1
    /\ mpc' = "finally"
    /\ UNCHANGED <<prog, agentvars, hw_error_at, primvars, navvars, hwvars, gray, batch, ncmds, i, cur, boundary_hit, last_action,
                   result, correction, elapsed, monvars, histvars>>

\* finally: stop_grayscale_monitoring()
StopGrayscaleMonitoring ==
    /\ prog \in MazeProgs /\ mpc = "finally"
    /\ StopMonitoringBody
    /\ mpc' = "pause"
    /\ UNCHANGED <<prog, agentvars, hw_error_at, primvars, navvars, hwvars, gray, batch, ncmds, i, cur, boundary_hit, last_action,
                   execution_log, successful_commands, brk, result, correction, elapsed,
                   grayscale_thread, sample, boundary_log, histvars>>

\* finally: time.sleep(0.5), then break or the next iteration
MazePause ==
    /\ prog \in MazeProgs /\ mpc = "pause"
    /\ IF brk THEN mpc' = "after_loop" /\ i' = i
              ELSE mpc' = "for" /\ i' = i + 1
    /\ UNCHANGED <<prog, agentvars, hw_error_at, primvars, navvars, hwvars, gray, batch, ncmds, cur, boundary_hit, last_action,
                   execution_log, successful_commands, brk, result, correction, elapsed,
                   monvars, histvars>>

\* after the loop: course correction on a boundary hit, success text otherwise
MazeAfterLoop ==
    /\ prog \in MazeProgs /\ mpc = "after_loop"
    /\ IF boundary_hit
       THEN /\ correction' = GetCourseCorrection(execution_log)
            /\ result' = "boundary_hit"
       ELSE /\ result' = "all_executed"
            /\ UNCHANGED correction
    /\ mpc' = "done"
    /\ UNCHANGED <<prog, agentvars, hw_error_at, primvars, navvars, hwvars, gray, batch, ncmds, i, cur, boundary_hit, last_action,
                   execution_log, successful_commands, brk, elapsed, monvars, histvars>>

\* execute_course_correction / a further call: execute_command_list(commands) again
MazeNextBatch ==
    /\ prog = "maze" /\ mpc = "done" /\ batch < MaxBatches
    /\ batch' = batch + 1
    /\ \E n \in 1..MaxCmds : ncmds' = n
    /\ i' = 0 /\ execution_log' = <<>> /\ successful_commands' = 0
    /\ brk' = FALSE /\ result' = "none" /\ correction' = -1
    /\ mpc' = "for"
    /\ dispatched' = {} /\ raised_during' = {} /\ trip_in_cmd' = FALSE
    /\ UNCHANGED <<prog, agentvars, hw_error_at, primvars, navvars, hwvars, gray, cur, boundary_hit, last_action, elapsed, monvars,
                   trip_stop_issued, dropped_in_cmd, sampled_in>>

\* ======================================================================
\* Final/maze_navigation_agent.py : monitor_grayscale (thread body)
\* ======================================================================

\* programs in which the monitor thread runs: the maze sequencer, and a caller
\* of the agent's start_ / stop_grayscale_monitoring methods in any order
MonitorProgs == {"maze", "maze_hw", "monitor"}

\* the loop test of monitor_grayscale with the sense of its exit: the thread
\* leaves the loop when the event is set
MonitorLoopExits_Never(event) == FALSE
MonitorLoopExits(event) == event

\* while not stop_grayscale_monitoring.is_set(): grayscale_values = get_grayscale()
MonitorSample ==
    /\ prog \in MonitorProgs /\ grayscale_thread = "while"
    /\ IF MonitorLoopExits(stop_grayscale_monitoring)
       THEN grayscale_thread' = "dead" /\ UNCHANGED <<sample, trip_stop_issued, sampled_in>>
       ELSE \/ \E v \in GraySamples :
                 /\ sample' = v
                 /\ trip_stop_issued' = FALSE
                 \* history: the command whose primitive is running (between
                 \* the tool's call of the primitive and its return) at a
                 \* tripping sample, NoAction when none is
                 /\ sampled_in' = IF ~AnyBelow(v, MAZE_BLACK_LINE_THRESHOLD)
                                  THEN sampled_in
                                  ELSE IF mpc = "in_flight" THEN ThisAction ELSE NoAction
                 /\ grayscale_thread' = IF AnyBelow(v, MAZE_BLACK_LINE_THRESHOLD)
                                        THEN "hit" ELSE "sleep"
            \/ \* get_grayscale() raises: except branch, sleep(0.5)
               /\ grayscale_thread' = "sleep"
               /\ UNCHANGED <<sample, trip_stop_issued, sampled_in>>
    /\ UNCHANGED <<prog, agentvars, hw_error_at, primvars, navvars, hwvars, gray, seqvars, stop_grayscale_monitoring,
                   grayscale_monitoring, boundary_log, dispatched, raised_during,
                   trip_in_cmd, dropped_in_cmd>>

\* navigation_state['boundary_hit'] = True
MonitorRaise ==
    /\ prog \in MonitorProgs /\ grayscale_thread = "hit"
    /\ boundary_hit' = TRUE
    /\ raised_during' = IF mpc \in {"dispatch", "in_flight", "returned"}
                        THEN raised_during \cup {i} ELSE raised_during
    /\ grayscale_thread' = "stop"
    /\ UNCHANGED <<prog, agentvars, hw_error_at, primvars, navvars, hwvars, gray, mpc, batch, ncmds, i, cur, last_action, execution_log,
                   successful_commands, brk, result, correction, elapsed,
                   stop_grayscale_monitoring, grayscale_monitoring, sample, boundary_log,
                   dispatched, trip_in_cmd, trip_stop_issued, dropped_in_cmd, sampled_in>>

\* try: from final_primitives import stop; stop()  except: pass
MonitorStop ==
    /\ prog \in MonitorProgs /\ grayscale_thread = "stop"
    /\ IF "stop" \in FinalPrimitivesNames
       THEN motor' = "stop" /\ trip_stop_issued' = TRUE
       ELSE UNCHANGED <<motor, trip_stop_issued>>
    /\ trip_in_cmd' = (trip_in_cmd \/ mpc \in {"dispatch", "in_flight"})
    /\ grayscale_thread' = "log"
    /\ UNCHANGED <<prog, agentvars, hw_error_at, primvars, navvars, motor_speed, cali_dir_value, px_dir_servo, servo_angles, gray,
                   seqvars, stop_grayscale_monitoring, grayscale_monitoring, sample,
                   boundary_log, dispatched, raised_during, dropped_in_cmd, sampled_in>>

\* boundary_log = {...}; self._log_boundary_hit(boundary_log)
MonitorLog ==
    /\ prog \in MonitorProgs /\ grayscale_thread = "log"
    /\ boundary_log' = [last_action |-> last_action, grayscale_values |-> sample]
    /\ grayscale_thread' = "run_sync"
    /\ sampled_in' = NoAction
    /\ UNCHANGED <<prog, agentvars, hw_error_at, primvars, navvars, hwvars, gray, seqvars, stop_grayscale_monitoring,
                   grayscale_monitoring, sample, dispatched, raised_during,
                   trip_in_cmd, trip_stop_issued, dropped_in_cmd>>

\* _log_boundary_hit: Runner.run_sync(self.navigation_agent, ...) returns, or
\* raises into its except branch
MonitorRunSync ==
    /\ prog \in MonitorProgs /\ grayscale_thread = "run_sync"
    /\ grayscale_thread' = "cooldown"
    /\ UNCHANGED <<prog, agentvars, hw_error_at, primvars, navvars, hwvars, gray, seqvars, stop_grayscale_monitoring,
                   grayscale_monitoring, sample, boundary_log, histvars>>

\* time.sleep(2) after a trip
MonitorCooldown ==
    /\ prog \in MonitorProgs /\ grayscale_thread = "cooldown"
    /\ grayscale_thread' = "sleep"
    /\ UNCHANGED <<prog, agentvars, hw_error_at, primvars, navvars, hwvars, gray, seqvars, stop_grayscale_monitoring,
                   grayscale_monitoring, sample, boundary_log, histvars>>

\* time.sleep(0.1) (or 0.5 after an error), back to the loop test
MonitorSleep ==
    /\ prog \in MonitorProgs /\ grayscale_thread = "sleep"
    /\ grayscale_thread' = "while"
    /\ UNCHANGED <<prog, agentvars, hw_error_at, primvars, navvars, hwvars, gray, seqvars, stop_grayscale_monitoring,
                   grayscale_monitoring, sample, boundary_log, histvars>>

\* the steps of the monitor thread
MonitorThread ==
    \/ MonitorSample \/ MonitorRaise \/ MonitorStop \/ MonitorLog \/ MonitorRunSync \/ MonitorCooldown
    \/ MonitorSleep

\* a call of start_grayscale_monitoring() in any state of the monitor
CallStartMonitoring ==
    /\ prog = "monitor"
    /\ StartMonitoringBody
    /\ UNCHANGED <<prog, agentvars, hw_error_at, primvars, navvars, hwvars, gray, seqvars, sample, boundary_log,
                   histvars>>

\* a call of stop_grayscale_monitoring() in any state of the monitor
CallStopMonitoring ==
    /\ prog = "monitor"
    /\ StopMonitoringBody
    /\ UNCHANGED <<prog, agentvars, hw_error_at, primvars, navvars, hwvars, gray, seqvars, grayscale_thread, sample,
                   boundary_log, histvars>>

\* the caller's navigation_state['boundary_hit'] = False before a command
CallerClearsBoundaryHit ==
    /\ prog = "monitor"
    /\ boundary_hit' = FALSE
    /\ UNCHANGED <<prog, agentvars, hw_error_at, primvars, navvars, hwvars, gray, mpc, batch, ncmds, i, cur,
                   last_action, execution_log, successful_commands, brk, result,
                   correction, elapsed, monvars, histvars>>


\* ======================================================================
\* Final/simple_maze_agent.py : SimpleMazeAgent
\* ======================================================================

\* log entry of execute_commands_with_monitoring after a normal return
SimpleLogEntry(idx, cmd, hit) ==
    [command_index |-> idx, success |-> ~hit, boundary_hit |-> hit]

\* black_line_threshold of the polling loop of an action
PollThreshold(action) ==
    IF action = "move_forward" THEN FORWARD_BLACK_LINE_THRESHOLD
    ELSE BACKWARD_BLACK_LINE_THRESHOLD

\* for i, command in enumerate(commands): reset flag, remember the command
SimpleFor ==
    /\ prog \in SimpleProgs /\ mpc = "for"
    /\ IF i < ncmds
       THEN /\ \E c \in CommandsOf(prog) : cur' = c
            /\ boundary_hit' = FALSE
            /\ last_action' = ThisAction
            /\ mpc' = "exec"
       ELSE /\ mpc' = "after_loop"
            /\ UNCHANGED <<cur, boundary_hit, last_action>>
    /\ dropped_in_cmd' = FALSE
    /\ UNCHANGED <<prog, agentvars, hw_error_at, primvars, navvars, hwvars, gray, batch, ncmds, i, execution_log, successful_commands,
                   brk, result, correction, elapsed, monvars, dispatched, raised_during,
                   trip_in_cmd, trip_stop_issued, sampled_in>>

\* execute_command_with_continuous_monitoring: reset(), then start the action
SimpleExec ==
    /\ prog \in SimpleProgs /\ mpc = "exec"
    /\ dispatched' = dispatched \cup {i}
    /\ servo_angles' = 0
    /\ elapsed' = 0
    /\ IF cur.action \in {"move_forward", "move_backward"}
       THEN /\ motor' = PxCall(cur.action) /\ motor_speed' = cur.speed
            /\ px_dir_servo' = 0
            /\ mpc' = "poll"
            /\ UNCHANGED cali_dir_value
       ELSE IF cur.action \in {"turn_left", "turn_right"}
       THEN /\ cali_dir_value' = CaliFor(cur.action)
            /\ motor' = "forward" /\ motor_speed' = cur.speed
            /\ px_dir_servo' = 0
            /\ mpc' = "turning"
       ELSE IF cur.action = "set_dir_servo"
       THEN /\ px_dir_servo' = cur.angle
            /\ motor' = "stop"
            /\ mpc' = "returned"
            /\ UNCHANGED <<motor_speed, cali_dir_value>>
       ELSE /\ px_dir_servo' = 0
            /\ motor' = "stop"
            /\ mpc' = "returned"
            /\ UNCHANGED <<motor_speed, cali_dir_value>>
    /\ UNCHANGED <<prog, agentvars, hw_error_at, primvars, navvars, gray, batch, ncmds, i, cur, boundary_hit, last_action, execution_log,
                   successful_commands, brk, result, correction, monvars, raised_during,
                   trip_in_cmd, trip_stop_issued, dropped_in_cmd, sampled_in>>

\* while time.time() - start_time < duration: sample, stop on a black line, sleep(0.05)
SimplePoll ==
    /\ prog \in SimpleProgs /\ mpc = "poll"
    /\ IF elapsed < DurationTicks
       THEN IF AnyBelow(gray, PollThreshold(cur.action))
            THEN /\ boundary_hit' = TRUE
                 /\ raised_during' = raised_during \cup {i}
                 /\ motor' = "stop"
                 /\ mpc' = "returned"
                 /\ UNCHANGED elapsed
            ELSE /\ elapsed' = elapsed + 1
                 /\ UNCHANGED <<boundary_hit, raised_during, motor, mpc>>
       ELSE /\ motor' = "stop"
            /\ mpc' = "returned"
            /\ UNCHANGED <<boundary_hit, raised_during, elapsed>>
    /\ UNCHANGED <<prog, agentvars, hw_error_at, primvars, navvars, motor_speed, cali_dir_value, px_dir_servo, servo_angles, gray, batch,
                   ncmds, i, cur, last_action, execution_log, successful_commands, brk,
                   result, correction, monvars, dispatched, trip_in_cmd, trip_stop_issued,
                   dropped_in_cmd, sampled_in>>

\* final_primitives.turn_left / turn_right: time.sleep(duration); px.stop(); calibration back
SimpleTurning ==
    /\ prog \in SimpleProgs /\ mpc = "turning"
    /\ IF elapsed < DurationTicks
       THEN /\ elapsed' = elapsed + 1
            /\ UNCHANGED <<motor, cali_dir_value, mpc>>
       ELSE /\ motor' = "stop"
            /\ cali_dir_value' = <<1, 1>>
            /\ mpc' = "returned"
            /\ UNCHANGED elapsed
    /\ UNCHANGED <<prog, agentvars, hw_error_at, primvars, navvars, motor_speed, px_dir_servo, servo_angles, gray, batch, ncmds, i, cur,
                   boundary_hit, last_action, execution_log, successful_commands, brk,
                   result, correction, monvars, histvars>>

\* the robot reaches the black line while a movement has at least one poll interval left
LineDrop ==
    /\ prog \in SimpleProgs /\ mpc \in {"poll", "turning"}
    /\ elapsed + 1 < DurationTicks
    /\ gray = ClearGray
    /\ \E v \in GraySamples \ {ClearGray} : gray' = v
    /\ dropped_in_cmd' = TRUE
    /\ UNCHANGED <<prog, agentvars, hw_error_at, primvars, navvars, hwvars, seqvars, monvars, dispatched, raised_during, trip_in_cmd,
                   trip_stop_issued, sampled_in>>

\* get_grayscale() or px.stop() raises during a movement: the except branch of
\* execute_command_with_continuous_monitoring tries px.stop() and re-raises, the
\* except branch of the batch loop logs the failure and breaks
SimpleRaises ==
    /\ prog = "simple_hw" /\ mpc \in {"poll", "turning"}
    /\ \E stopped \in BOOLEAN : motor' = IF stopped THEN "stop" ELSE motor
    /\ execution_log' = Append(execution_log,
                               [command_index |-> i, success |-> FALSE,
                                boundary_hit |-> boundary_hit])
    /\ brk' = TRUE
    /\ hw_error_at' = i
    /\ mpc' = "finally"
    /\ UNCHANGED <<prog, agentvars, primvars, navvars, motor_speed, cali_dir_value,
                   px_dir_servo, servo_angles, gray, batch, ncmds, i, cur, boundary_hit,
                   last_action, successful_commands, result, correction, elapsed, monvars,
                   histvars>>

\* if execution_state['boundary_hit']: log failure and break, else log success
SimpleAfterCommand ==
    /\ prog \in SimpleProgs /\ mpc = "returned"
    /\ execution_log' = Append(execution_log, SimpleLogEntry(i, cur, boundary_hit))
    /\ brk' = boundary_hit
    /\ successful_commands' = IF boundary_hit THEN successful_commands
                              ELSE successful_commands + 1
    /\ mpc' = "finally"
    /\ UNCHANGED <<prog, agentvars, hw_error_at, primvars, navvars, hwvars, gray, batch, ncmds, i, cur, boundary_hit, last_action,
                   result, correction, elapsed, monvars, histvars>>

\* finally: reset(); time.sleep(0.5); then break or the next iteration
SimpleFinally ==
    /\ prog \in SimpleProgs /\ mpc = "finally"
    /\ px_dir_servo' = 0 /\ servo_angles' = 0 /\ motor' = "stop"
    /\ IF brk THEN mpc' = "after_loop" /\ i' = i
              ELSE mpc' = "for" /\ i' = i + 1
    /\ UNCHANGED <<prog, agentvars, hw_error_at, primvars, navvars, motor_speed, cali_dir_value, gray, batch, ncmds, cur, boundary_hit,
                   last_action, execution_log, successful_commands, brk, result, correction,
                   elapsed, monvars, histvars>>

\* return {'success': not execution_state['boundary_hit'], ...}
SimpleAfterLoop ==
    /\ prog \in SimpleProgs /\ mpc = "after_loop"
    /\ result' = IF boundary_hit THEN "boundary_hit" ELSE "all_executed"
    /\ mpc' = "done"
    /\ UNCHANGED <<prog, agentvars, hw_error_at, primvars, navvars, hwvars, gray, batch, ncmds, i, cur, boundary_hit, last_action,
                   execution_log, successful_commands, brk, correction, elapsed, monvars,
                   histvars>>

\* run_maze_navigation: after a boundary hit the robot is put back and a new list is run
SimpleNextBatch ==
    /\ prog \in SimpleProgs /\ mpc = "done" /\ batch < MaxBatches
    /\ result = "boundary_hit"
    /\ batch' = batch + 1
    /\ \E n \in 1..MaxCmds : ncmds' = n
    /\ i' = 0 /\ execution_log' = <<>> /\ successful_commands' = 0
    /\ brk' = FALSE /\ result' = "none"
    /\ gray' = ClearGray
    /\ mpc' = "for"
    /\ dispatched' = {} /\ raised_during' = {} /\ dropped_in_cmd' = FALSE
    /\ hw_error_at' = -1
    /\ UNCHANGED <<prog, agentvars, primvars, navvars, hwvars, cur, boundary_hit, last_action, correction, elapsed, monvars,
                   trip_in_cmd, trip_stop_issued, sampled_in>>

\* ======================================================================
\* ruthwika/primitives.py : get_ultrasonic_distance
\* ruthwika/navigation_agent.py : parse_ultrasonic_distance, get_vision_distance
\* ======================================================================
MAX_STEPS == 20
FALLBACK_DISTANCE == 100
ULTRASONIC_MIN == 20
ULTRASONIC_MAX == 4000
VISION_MIN == 20
VISION_MAX == 5000
APPROACH_SPEED == 30

\* Python's None
None == -999999

Abs(x) == IF x < 0 THEN -x ELSE x

\* f"{distance:.1f}": hundredths rounded to the nearest tenth (inputs avoid exact ties)
FormatTenths(raw) == IF raw >= 0 THEN (raw + 5) \div 10 ELSE -((-raw + 5) \div 10)

\* get_ultrasonic_distance(): the message around px.ultrasonic.read(), or the error text
GetUltrasonicDistance(raw) ==
    IF raw = None THEN [kind |-> "error", neg |-> FALSE, mag |-> 0]
    ELSE [kind |-> "reading", neg |-> (raw < 0), mag |-> Abs(FormatTenths(raw))]

\* number the pattern ([-+]?\d+(?:\.\d+)?)\s*cm captures
UltrasonicMatch_Unsigned(text) == text.mag
UltrasonicMatch(text) == IF text.neg THEN -text.mag ELSE text.mag

\* parse_ultrasonic_distance(ultrasonic_result)
ParseUltrasonicDistance(text) ==
    IF text.kind = "reading"
    THEN LET distance == UltrasonicMatch(text)
         IN  IF ULTRASONIC_MIN <= distance /\ distance <= ULTRASONIC_MAX
             THEN distance ELSE None
    ELSE None

\* _extract_distance_from_vision: the patterns capture digits only, then the range test
ExtractDistanceFromVision(text) ==
    IF text.kind \in {"cm", "centimeters"}
    THEN IF VISION_MIN <= text.mag /\ text.mag <= VISION_MAX THEN text.mag ELSE None
    ELSE None

\* the priority chain of approach_object_slowly (lines 576-585)
FuseDistance_VisionFirst(us, vis) ==
    IF vis # None /\ VISION_MIN <= vis /\ vis <= VISION_MAX
    THEN [distance |-> vis, source |-> "vision"]
    ELSE IF us # None /\ ULTRASONIC_MIN <= us /\ us <= ULTRASONIC_MAX
    THEN [distance |-> us, source |-> "ultrasonic"]
    ELSE [distance |-> FALLBACK_DISTANCE, source |-> "fallback"]
FuseDistance(us, vis) ==
    IF us # None /\ ULTRASONIC_MIN <= us /\ us <= ULTRASONIC_MAX
    THEN [distance |-> us, source |-> "ultrasonic"]
    ELSE IF vis # None /\ VISION_MIN <= vis /\ vis <= VISION_MAX
    THEN [distance |-> vis, source |-> "vision"]
    ELSE [distance |-> FALLBACK_DISTANCE, source |-> "fallback"]

Min2(a, b) == IF a < b THEN a ELSE b
Max2(a, b) == IF a > b THEN a ELSE b

\* step_size = max(1.0, min(8.0, remaining_distance * 0.3)), in thousandths of a cm
StepSize(remaining) == Max2(1000, Min2(8000, remaining * 30))

\* raw rangefinder samples in hundredths of a cm (None: the read raises)
RawRangeSamples == { -100, 196, 1053, 1204, 2537, 40004, 40006, None }

\* vision replies: "DISTANCE: 42 cm", "1 cm", "600 cm", "-5 cm", "about 8 centimeters",
\* a reply without a number, and a failed API call
VisionReplies ==
    { [kind |-> "cm", neg |-> FALSE, mag |-> 420],
      [kind |-> "cm", neg |-> FALSE, mag |-> 10],
      [kind |-> "cm", neg |-> FALSE, mag |-> 6000],
      [kind |-> "cm", neg |-> TRUE,  mag |-> 50],
      [kind |-> "centimeters", neg |-> FALSE, mag |-> 80],
      [kind |-> "none", neg |-> FALSE, mag |-> 0],
      [kind |-> "api_error", neg |-> FALSE, mag |-> 0] }

StopDistances == { 50, 100, 300 }

\* the programs that run approach_object_slowly: "approach" with arbitrary sensor
\* replies, "descent" with a synthetic, strictly decreasing rangefinder sequence
ApproachProgs == { "approach", "descent" }

\* synthetic rangefinder values in hundredths of a cm: 3.00 cm, 4.00 cm, ...
MaxDescentReadings == 25
DescentReadings == { 300 + 100 * k : k \in 0..(MaxDescentReadings - 1) }

\* what px.ultrasonic.read() can return in the next cycle
RangeInputs ==
    IF prog = "descent"
    THEN { r \in DescentReadings : us_text.kind = "reading" => FormatTenths(r) < us_text.mag }
    ELSE RawRangeSamples

\* what capture_image can return in the next cycle (the synthetic run has every frame)
PathMatches == IF prog = "descent" THEN { TRUE } ELSE BOOLEAN

\* "if current_distance <= stop_distance" (line 589)
ReachedStopDistance_Strict(distance, target) == distance < target
ReachedStopDistance(distance, target) == distance <= target

\* while step_count < max_steps: step_count += 1; capture_image; path_match
ApproachLoop ==
    /\ prog \in ApproachProgs /\ apc = "loop"
    /\ IF step_count < MAX_STEPS
       THEN /\ step_count' = step_count + 1
            /\ \E path_match \in PathMatches :
                 IF path_match
                 THEN apc' = "measure" /\ UNCHANGED a_result
                 ELSE apc' = "done" /\ a_result' = "no_image_path"
       ELSE /\ apc' = "done" /\ a_result' = "incomplete"
            /\ UNCHANGED step_count
    /\ UNCHANGED <<prog, agentvars, hw_error_at, primvars, cenvars, hwvars, gray, seqvars, monvars, histvars, stop_distance, us_text,
                   ultrasonic_distance, vision_distance, current_distance, distance_source,
                   step_size, fallback_run>>

\* read both sensors, choose current_distance and distance_source
ApproachMeasure ==
    /\ prog \in ApproachProgs /\ apc = "measure"
    /\ \E raw \in RangeInputs, vreply \in VisionReplies :
         LET text == GetUltrasonicDistance(raw)
             us   == ParseUltrasonicDistance(text)
             vis  == ExtractDistanceFromVision(vreply)
             f    == FuseDistance(us, vis)
         IN  /\ us_text' = text
             /\ ultrasonic_distance' = us
             /\ vision_distance' = vis
             /\ current_distance' = f.distance
             /\ distance_source' = f.source
             /\ fallback_run' = IF f.source = "fallback" THEN fallback_run + 1 ELSE 0
    /\ apc' = "decide"
    /\ UNCHANGED <<prog, agentvars, hw_error_at, primvars, cenvars, hwvars, gray, seqvars, monvars, histvars, step_count, stop_distance,
                   step_size, a_result>>

\* success test, step size, move_forward(30, step_duration, check_obstacles=False)
ApproachDecide ==
    /\ prog \in ApproachProgs /\ apc = "decide"
    /\ IF ReachedStopDistance(current_distance, stop_distance)
       THEN /\ a_result' = "success"
            /\ apc' = "done"
            /\ UNCHANGED <<step_size, motor, motor_speed, servo_angles>>
       ELSE LET size == StepSize(current_distance - stop_distance)
            IN  /\ step_size' = size
                /\ IF size < 1000
                   THEN /\ a_result' = "success_very_close"
                        /\ apc' = "done"
                        /\ UNCHANGED <<motor, motor_speed, servo_angles>>
                   ELSE /\ motor' = "forward"
                        /\ motor_speed' = APPROACH_SPEED
                        /\ servo_angles' = 0
                        /\ apc' = "moving"
                        /\ UNCHANGED a_result
    /\ UNCHANGED <<prog, agentvars, hw_error_at, primvars, cenvars, cali_dir_value, px_dir_servo, gray, seqvars, monvars, histvars,
                   step_count, stop_distance, us_text, ultrasonic_distance, vision_distance,
                   current_distance, distance_source, fallback_run>>

\* move_forward: time.sleep(duration); px.stop(); then time.sleep(0.2)
ApproachMoveReturns ==
    /\ prog \in ApproachProgs /\ apc = "moving"
    /\ motor' = "stop"
    /\ apc' = "loop"
    /\ UNCHANGED <<prog, agentvars, hw_error_at, primvars, cenvars, motor_speed, cali_dir_value, px_dir_servo, servo_angles, gray,
                   seqvars, monvars, histvars, step_count, stop_distance, us_text,
                   ultrasonic_distance, vision_distance, current_distance, distance_source,
                   step_size, a_result, fallback_run>>

\* ======================================================================
\* ruthwika/navigation_agent.py : centering
\* ======================================================================
MAX_ATTEMPTS == 50
CENTERING_RETRIES == 5
FRESH_RETRIES == 3
MIN_CONFIDENCE == 5
TURN_SPEED == 50

CenteringKeys ==
    { "TARGET_VISIBLE", "POSITION", "HORIZ_OFFSET", "TURN_DIRECTION", "TURN_ANGLE",
      "TURN_DURATION", "CENTERED", "CONFIDENCE" }

\* a reply of the vision model: which fields it lacks, the text after each colon,
\* and whether it carries refusal boilerplate ("I'm unable to ...")
Reply(tv, pos, dir, ang, cen, conf, absent, boiler) ==
    [kind |-> "text", boilerplate |-> boiler, absent |-> absent,
     TARGET_VISIBLE |-> tv, POSITION |-> pos, TURN_DIRECTION |-> dir, TURN_ANGLE |-> ang,
     TURN_DURATION |-> "0.7", CENTERED |-> cen, CONFIDENCE |-> conf]

ApiError == [Reply("", "", "", "", "", "", CenteringKeys, FALSE) EXCEPT !.kind = "api_error"]
NoReply == [Reply("", "", "", "", "", "", CenteringKeys, FALSE) EXCEPT !.kind = "none"]

CenteringReplies ==
    { Reply("true",  "center", "none",  "0",  "true",  "9", {}, FALSE),
      Reply("True",  "left",   "left",  "15", "false", "8", {}, FALSE),
      Reply("true",  "right",  "right", "15", "false", "8", {}, FALSE),
      Reply("true",  "right",  "left",  "15", "false", "8", {}, FALSE),
      Reply("true",  "left",   "right", "15", "false", "8", {}, FALSE),
      Reply("true",  "left",   "left",  "15", "false", "3", {}, FALSE),
      Reply("true",  "right",  "right", "15", "false", "3", {}, FALSE),
      Reply("false", "center", "none",  "0",  "false", "8", {}, FALSE),
      Reply("true",  "left",   "left",  "15", "false", "8", {"CENTERED"}, FALSE),
      Reply("true",  "left",   "left",  "15", "false", "8", {}, TRUE),
      Reply("true",  "left",   "Up",    "15", "false", "8", {}, FALSE),
      Reply("true",  "left",   "left",  "15 degrees", "false", "8", {}, FALSE),
      Reply("", "", "", "", "", "", CenteringKeys, TRUE),
      ApiError }

\* str.lower() on the texts that occur
Lower(str) ==
    CASE str = "True" -> "true"
      [] str = "Up"   -> "up"
      [] OTHER        -> str

\* texts float() / int() accept, and their values (durations in tenths of a second)
IsNumeral(str) == str \in {"0", "3", "8", "9", "15", "0.7"}
NumeralValue(str) ==
    CASE str = "0"   -> 0
      [] str = "3"   -> 3
      [] str = "8"   -> 8
      [] str = "9"   -> 9
      [] str = "15"  -> 15
      [] str = "0.7" -> 7

EmptyInstructions ==
    [keys |-> {}, target_visible |-> FALSE, position |-> "", turn_direction |-> "",
     turn_angle |-> 0, turn_duration |-> 0, centered |-> FALSE, confidence |-> 0]

\* _parse_centering_instructions: one entry per "KEY: value" line that is present
ParseCenteringInstructions(r) ==
    LET has(k) == k \notin r.absent
    IN  [keys |-> CenteringKeys \ r.absent,
         target_visible |-> has("TARGET_VISIBLE") /\ Lower(r.TARGET_VISIBLE) = "true",
         position       |-> IF has("POSITION") THEN Lower(r.POSITION) ELSE "",
         turn_direction |-> IF has("TURN_DIRECTION") THEN Lower(r.TURN_DIRECTION) ELSE "",
         turn_angle     |-> IF has("TURN_ANGLE") /\ IsNumeral(r.TURN_ANGLE)
                            THEN NumeralValue(r.TURN_ANGLE) ELSE 0,
         turn_duration  |-> IF has("TURN_DURATION")
                            THEN (IF IsNumeral(r.TURN_DURATION)
                                  THEN NumeralValue(r.TURN_DURATION) ELSE 5)
                            ELSE 0,
         centered       |-> has("CENTERED") /\ Lower(r.CENTERED) = "true",
         confidence     |-> IF has("CONFIDENCE")
                            THEN (IF IsNumeral(r.CONFIDENCE)
                                  THEN NumeralValue(r.CONFIDENCE) ELSE 5)
                            ELSE 0]

\* "if instructions:" in get_centering_instructions_with_retry
Accepted_OnlyComplete(r) == r.kind = "text" /\ r.absent = {} /\ ~r.boilerplate
Accepted(r) == r.kind = "text" /\ ParseCenteringInstructions(r).keys # {}

\* dict.get(key, default)
Get(d, key, field, default) == IF key \in d.keys THEN d[field] ELSE default

\* "if attempt < max_attempts - 1: continue  else: return ..."
ContinueOrFail(reason) ==
    IF attempt < MAX_ATTEMPTS - 1
    THEN cpc' = "loop" /\ UNCHANGED c_result
    ELSE cpc' = "done" /\ c_result' = reason

\* the loop test "attempt < max_attempts"
CenterLoopTest_OffByOne(a) == a <= MAX_ATTEMPTS
CenterLoopTest(a) == a < MAX_ATTEMPTS

\* while attempt < max_attempts: attempt += 1; capture_image; path_match
CenterLoop ==
    /\ prog = "center" /\ cpc = "loop"
    /\ IF CenterLoopTest(attempt)
       THEN /\ attempt' = attempt + 1
            /\ \E path_match \in BOOLEAN :
                 IF path_match
                 THEN cpc' = "request" /\ UNCHANGED c_result
                 ELSE IF attempt' < MAX_ATTEMPTS - 1
                      THEN cpc' = "loop" /\ UNCHANGED c_result
                      ELSE cpc' = "done" /\ c_result' = "failed_no_image_path"
       ELSE /\ cpc' = "done" /\ c_result' = "incomplete"
            /\ UNCHANGED attempt
    /\ retry' = 0 /\ reply' = NoReply /\ fresh_reply' = NoReply
    /\ turn_instructions' = EmptyInstructions
    /\ turn_direction' = "none" /\ turn_angle' = 0 /\ turn_duration' = 0
    /\ position' = "center" /\ logic_error' = FALSE /\ acted' = "none"
    /\ turn_issued' = "none"
    /\ UNCHANGED <<prog, agentvars, hw_error_at, primvars, appvars, hwvars, gray, seqvars, monvars, histvars>>

\* get_centering_instructions_with_retry(image_path, target_object, max_retries=5)
CenterRequest ==
    /\ prog = "center" /\ cpc = "request"
    /\ IF retry < CENTERING_RETRIES
       THEN \E r \in CenteringReplies :
              IF Accepted(r)
              THEN /\ reply' = r
                   /\ turn_instructions' = ParseCenteringInstructions(r)
                   /\ cpc' = "decide"
                   /\ UNCHANGED <<retry, c_result>>
              ELSE /\ retry' = retry + 1
                   /\ UNCHANGED <<reply, turn_instructions, cpc, c_result>>
       ELSE /\ ContinueOrFail("failed_no_valid_instructions")
            /\ UNCHANGED <<retry, reply, turn_instructions>>
    /\ UNCHANGED <<prog, agentvars, hw_error_at, primvars, appvars, hwvars, gray, seqvars, monvars, histvars, attempt,
                   fresh_reply, turn_direction, turn_angle, turn_duration, position,
                   logic_error, acted, turn_issued>>

\* direction and position contradict each other (lines 467-474)
LogicError(dir, angle, pos) ==
    \/ dir = "left"  /\ angle > 0 /\ pos = "right"
    \/ dir = "right" /\ angle > 0 /\ pos = "left"

\* centered / target_visible / confidence tests and the logic-consistency test
CenterDecide ==
    /\ prog = "center" /\ cpc = "decide"
    /\ LET ti   == turn_instructions
           dir  == Get(ti, "TURN_DIRECTION", "turn_direction", "none")
           ang  == Get(ti, "TURN_ANGLE", "turn_angle", 0)
           dur  == Get(ti, "TURN_DURATION", "turn_duration", 5)
           conf == Get(ti, "CONFIDENCE", "confidence", 5)
           pos  == Get(ti, "POSITION", "position", "center")
       IN  IF Get(ti, "CENTERED", "centered", FALSE)
           THEN /\ cpc' = "done" /\ c_result' = "centered"
                /\ UNCHANGED <<turn_direction, turn_angle, turn_duration, position,
                               logic_error, acted, retry>>
           ELSE IF ~Get(ti, "TARGET_VISIBLE", "target_visible", FALSE)
           THEN /\ ContinueOrFail("failed_not_visible")
                /\ UNCHANGED <<turn_direction, turn_angle, turn_duration, position,
                               logic_error, acted, retry>>
           ELSE IF conf < MIN_CONFIDENCE
           THEN /\ ContinueOrFail("failed_low_confidence")
                /\ turn_direction' = dir /\ turn_angle' = ang /\ turn_duration' = dur
                /\ UNCHANGED <<position, logic_error, acted, retry>>
           ELSE /\ turn_direction' = dir /\ turn_angle' = ang /\ turn_duration' = dur
                /\ position' = pos
                /\ logic_error' = LogicError(dir, ang, pos)
                /\ acted' = "first"
                /\ retry' = 0
                /\ cpc' = IF LogicError(dir, ang, pos) THEN "fresh" ELSE "turn"
                /\ UNCHANGED c_result
    /\ UNCHANGED <<prog, agentvars, hw_error_at, primvars, appvars, hwvars, gray, seqvars, monvars, histvars, attempt, reply,
                   turn_instructions, fresh_reply, turn_issued>>

\* fresh instructions agree with themselves (lines 495-497)
FreshLooksCorrect(fpos, fdir) ==
    \/ fpos = "right" /\ fdir = "right"
    \/ fpos = "left" /\ fdir = "left"
    \/ fdir = "none"

\* logic_error: fresh capture_image and get_centering_instructions_with_retry(max_retries=3)
CenterFresh ==
    /\ prog = "center" /\ cpc = "fresh"
    /\ \/ \* no path in the fresh photo result, or no valid reply in three tries
          /\ cpc' = "turn"
          /\ UNCHANGED <<fresh_reply, turn_direction, turn_angle, turn_duration, position,
                         logic_error, acted>>
       \/ \E r \in CenteringReplies :
            /\ Accepted(r)
            /\ fresh_reply' = r
            /\ cpc' = "turn"
            /\ LET fi   == ParseCenteringInstructions(r)
                   fpos == Get(fi, "POSITION", "position", "center")
                   fdir == Get(fi, "TURN_DIRECTION", "turn_direction", "none")
                   fang == Get(fi, "TURN_ANGLE", "turn_angle", 0)
                   fdur == Get(fi, "TURN_DURATION", "turn_duration", 5)
               IN  IF Get(fi, "TARGET_VISIBLE", "target_visible", FALSE)
                      /\ FreshLooksCorrect(fpos, fdir)
                   THEN /\ turn_direction' = fdir /\ turn_angle' = fang
                        /\ turn_duration' = fdur /\ position' = fpos
                        /\ logic_error' = FALSE
                        /\ acted' = "fresh"
                   ELSE UNCHANGED <<turn_direction, turn_angle, turn_duration, position,
                                    logic_error, acted>>
    /\ UNCHANGED <<prog, agentvars, hw_error_at, primvars, appvars, hwvars, gray, seqvars, monvars, histvars, attempt, retry,
                   reply, turn_instructions, turn_issued, c_result>>

\* the turn chosen in lines 511-534, or "none" / "invalid"
ChosenTurn_NoCorrection(dir, angle, pos, err) ==
    IF dir = "left" /\ angle > 0 THEN "turn_in_place_left"
    ELSE IF dir = "right" /\ angle > 0 THEN "turn_in_place_right"
    ELSE IF dir = "none" \/ angle = 0 THEN "none"
    ELSE "invalid"
ChosenTurn(dir, angle, pos, err) ==
    IF dir = "left" /\ angle > 0
    THEN (IF err /\ pos = "right" THEN "turn_in_place_right" ELSE "turn_in_place_left")
    ELSE IF dir = "right" /\ angle > 0
    THEN (IF err /\ pos = "left" THEN "turn_in_place_left" ELSE "turn_in_place_right")
    ELSE IF dir = "none" \/ angle = 0
    THEN "none"
    ELSE "invalid"

\* issue the turn primitive up to its time.sleep(duration), or return / continue
CenterTurn ==
    /\ prog = "center" /\ cpc = "turn"
    /\ LET t == ChosenTurn(turn_direction, turn_angle, position, logic_error)
       IN  IF t = "none"
           THEN /\ cpc' = "done" /\ c_result' = "no_turn_needed"
                /\ UNCHANGED <<turn_issued, motor, motor_speed, cali_dir_value, servo_angles>>
           ELSE IF t = "invalid"
           THEN /\ ContinueOrFail("failed_invalid_turn")
                /\ UNCHANGED <<turn_issued, motor, motor_speed, cali_dir_value, servo_angles>>
           ELSE /\ turn_issued' = t
                /\ cali_dir_value' = IF t = "turn_in_place_left" THEN <<-1, 1>> ELSE <<1, -1>>
                /\ servo_angles' = 0
                /\ motor' = "forward" /\ motor_speed' = TURN_SPEED
                /\ cpc' = "turning"
                /\ UNCHANGED c_result
    /\ UNCHANGED <<prog, agentvars, hw_error_at, primvars, appvars, px_dir_servo, gray, seqvars, monvars, histvars, attempt,
                   retry, reply, turn_instructions, fresh_reply, turn_direction, turn_angle,
                   turn_duration, position, logic_error, acted>>

\* the turn primitive returns: px.stop(), calibration back; then time.sleep(0.3)
CenterTurnReturns ==
    /\ prog = "center" /\ cpc = "turning"
    /\ motor' = "stop"
    /\ cali_dir_value' = <<1, 1>>
    /\ cpc' = "loop"
    /\ UNCHANGED <<prog, agentvars, hw_error_at, primvars, appvars, motor_speed, px_dir_servo, servo_angles, gray, seqvars,
                   monvars, histvars, attempt, retry, reply, turn_instructions, fresh_reply,
                   turn_direction, turn_angle, turn_duration, position, logic_error, acted,
                   turn_issued, c_result>>


\* ======================================================================
\* ruthwika/primitives.py : the primitives, called one after another
\* ======================================================================

\* argument values a caller passes: in range, below and above the range
PrimAngles == { -50, 20, 50 }
PrimCamAngles == { -60, 60 }
InPlaceAngles == { 90 }
PrimSpeeds == { -20, 50, 150 }
\* duration: omitted (None) or a time in poll ticks
PrimDurations == { None, 1 }
MotorIds == { 1, 2 }

MotionPrimitives ==
    { "move_forward", "move_backward", "turn_left", "turn_right",
      "turn_in_place_left", "turn_in_place_right" }

PrimCall(fn, angle, speed, duration) ==
    [fn |-> fn, angle |-> angle, speed |-> speed, duration |-> duration]
NoCall == PrimCall("none", 0, 0, None)

\* clamp_value(value, min_val, max_val)
ClampValue_Identity(value, min_val, max_val) == value
ClampValue(value, min_val, max_val) == Max2(min_val, Min2(max_val, value))

\* everything a primitive of this module never touches
PrimFrame == UNCHANGED <<prog, agentvars, hw_error_at, gray, seqvars, monvars, histvars, navvars, unitvars>>

\* reset()
PrimReset ==
    /\ prog = "prims" /\ ppc = "idle"
    /\ px_dir_servo' = 0 /\ px_cam' = [pan |-> 0, tilt |-> 0]
    /\ motor' = "stop"
    /\ servo_angles' = 0 /\ cam_angles' = [pan |-> 0, tilt |-> 0]
    /\ continuous_movement' = FALSE
    /\ call' = PrimCall("reset", 0, 0, None)
    /\ UNCHANGED <<motor_speed, cali_dir_value, wheel_speed, ppc>>
    /\ PrimFrame

\* "if duration is None" of move_forward, move_backward, turn_left, turn_right
ContinuousMode(duration) == duration = None

\* move_forward(speed, duration, check_obstacles): up to the return or the sleep
\* (with check_obstacles the sleep is the polling loop of lines 98-103)
PrimMoveForward(speed, duration) ==
    /\ prog = "prims" /\ ppc = "idle"
    /\ motor' = "forward" /\ motor_speed' = ClampValue(speed, 0, 100)
    /\ servo_angles' = 0
    /\ IF ContinuousMode(duration)
       THEN continuous_movement' = TRUE /\ ppc' = "idle"
       ELSE ppc' = "sleeping" /\ UNCHANGED continuous_movement
    /\ call' = PrimCall("move_forward", 0, speed, duration)
    /\ UNCHANGED <<cali_dir_value, px_dir_servo, cam_angles, px_cam, wheel_speed>>
    /\ PrimFrame

\* move_backward(speed, duration)
PrimMoveBackward(speed, duration) ==
    /\ prog = "prims" /\ ppc = "idle"
    /\ motor' = "backward" /\ motor_speed' = ClampValue(speed, 0, 100)
    /\ servo_angles' = 0
    /\ IF ContinuousMode(duration)
       THEN continuous_movement' = TRUE /\ ppc' = "idle"
       ELSE ppc' = "sleeping" /\ UNCHANGED continuous_movement
    /\ call' = PrimCall("move_backward", 0, speed, duration)
    /\ UNCHANGED <<cali_dir_value, px_dir_servo, cam_angles, px_cam, wheel_speed>>
    /\ PrimFrame

\* turn_left(angle, speed, duration) steers to -angle, turn_right to +angle
PrimTurn(fn, angle, speed, duration) ==
    /\ prog = "prims" /\ ppc = "idle"
    /\ LET a == ClampValue(angle, -30, 30)
           steer == IF fn = "turn_left" THEN -a ELSE a
       IN  px_dir_servo' = steer /\ servo_angles' = steer
    /\ motor' = "forward" /\ motor_speed' = ClampValue(speed, 0, 100)
    /\ IF ContinuousMode(duration)
       THEN continuous_movement' = TRUE /\ ppc' = "idle"
       ELSE ppc' = "sleeping" /\ UNCHANGED continuous_movement
    /\ call' = PrimCall(fn, angle, speed, duration)
    /\ UNCHANGED <<cali_dir_value, cam_angles, px_cam, wheel_speed>>
    /\ PrimFrame

\* "if _continuous_movement" of turn_in_place_left / turn_in_place_right
InPlaceContinuous(duration) == continuous_movement

\* turn_in_place_left / turn_in_place_right(angle, speed, duration)
PrimTurnInPlace(fn, angle, speed, duration) ==
    /\ prog = "prims" /\ ppc = "idle"
    /\ cali_dir_value' = IF fn = "turn_in_place_left" THEN <<-1, 1>> ELSE <<1, -1>>
    /\ servo_angles' = 0
    /\ motor' = "forward" /\ motor_speed' = ClampValue(speed, 0, 100)
    /\ ppc' = IF InPlaceContinuous(duration) THEN "idle" ELSE "sleeping"
    /\ call' = PrimCall(fn, angle, speed, duration)
    /\ UNCHANGED <<px_dir_servo, continuous_movement, cam_angles, px_cam, wheel_speed>>
    /\ PrimFrame

\* the timed branch after time.sleep(duration) (or the obstacle stop of
\* move_forward): px.stop(), steering or calibration back, return
PrimReturns ==
    /\ prog = "prims" /\ ppc = "sleeping"
    /\ motor' = "stop"
    /\ IF call.fn \in {"turn_left", "turn_right"}
       THEN px_dir_servo' = 0 /\ servo_angles' = 0
       ELSE UNCHANGED <<px_dir_servo, servo_angles>>
    /\ IF call.fn \in {"turn_in_place_left", "turn_in_place_right"}
       THEN cali_dir_value' = <<1, 1>>
       ELSE UNCHANGED cali_dir_value
    /\ ppc' = "idle"
    /\ UNCHANGED <<motor_speed, call, continuous_movement, cam_angles, px_cam, wheel_speed>>
    /\ PrimFrame

\* stop()
PrimStop ==
    /\ prog = "prims" /\ ppc = "idle"
    /\ motor' = "stop"
    /\ continuous_movement' = FALSE
    /\ call' = PrimCall("stop", 0, 0, None)
    /\ UNCHANGED <<motor_speed, cali_dir_value, px_dir_servo, servo_angles, cam_angles,
                   px_cam, wheel_speed, ppc>>
    /\ PrimFrame

\* set_motor_speed(motor_id, speed): one wheel, the sign is the direction
PrimSetMotorSpeed(motor_id, speed) ==
    /\ prog = "prims" /\ ppc = "idle"
    /\ wheel_speed' = ClampValue(speed, -100, 100)
    /\ motor' = IF wheel_speed' # 0 THEN "wheel" ELSE motor
    /\ call' = PrimCall("set_motor_speed", ClampValue(motor_id, 1, 2), speed, None)
    /\ UNCHANGED <<motor_speed, cali_dir_value, px_dir_servo, servo_angles, cam_angles,
                   px_cam, continuous_movement, ppc>>
    /\ PrimFrame

\* set_dir_servo_angle(angle)
PrimSetDirServoAngle(angle) ==
    /\ prog = "prims" /\ ppc = "idle"
    /\ px_dir_servo' = ClampValue(angle, -30, 30)
    /\ servo_angles' = ClampValue(angle, -30, 30)
    /\ call' = PrimCall("set_dir_servo_angle", angle, 0, None)
    /\ UNCHANGED <<motor, motor_speed, cali_dir_value, cam_angles, px_cam, wheel_speed,
                   continuous_movement, ppc>>
    /\ PrimFrame

\* set_cam_pan_angle(angle) / set_cam_tilt_angle(angle)
PrimSetCamAngle(axis, angle) ==
    /\ prog = "prims" /\ ppc = "idle"
    /\ px_cam' = [px_cam EXCEPT ![axis] = ClampValue(angle, -35, 35)]
    /\ cam_angles' = [cam_angles EXCEPT ![axis] = ClampValue(angle, -35, 35)]
    /\ call' = PrimCall(IF axis = "pan" THEN "set_cam_pan_angle" ELSE "set_cam_tilt_angle",
                        angle, 0, None)
    /\ UNCHANGED <<motor, motor_speed, cali_dir_value, px_dir_servo, servo_angles,
                   wheel_speed, continuous_movement, ppc>>
    /\ PrimFrame


\* ======================================================================
\* picarx_primitives.py : rotate_in_place
\* ======================================================================
RotateDegrees == { -180, -1, 0, 45, 90 }
RotateSpeeds == { 1, 30, 50, 100 }

\* the steering set for the rotation (lines 208-216)
RotateSteering_Straight(degrees) == 0
RotateSteering(degrees) == IF degrees > 0 THEN 30 ELSE -30

\* duration = abs(degrees) / 90.0 * 1.0 * (30.0 / speed), in whole milliseconds
RotateDuration(degrees, speed) == (Abs(degrees) * 30 * 1000) \div (90 * speed)

\* what rotate_in_place leaves alone
RotateFrame ==
    UNCHANGED <<prog, agentvars, hw_error_at, gray, seqvars, monvars, histvars, navvars, motor_speed, cali_dir_value,
                continuous_movement, cam_angles, px_cam, wheel_speed, flask_start, cam_wait,
                vilib_initialized, cam_result>>

\* px.set_dir_servo_angle(+-30); _servo_angles['dir_servo'] = +-30
RotateSteer(degrees, speed) ==
    /\ prog = "rotate" /\ ppc = "idle"
    /\ call' = PrimCall("rotate_in_place", degrees, speed, None)
    /\ px_dir_servo' = RotateSteering(degrees)
    /\ servo_angles' = RotateSteering(degrees)
    /\ ppc' = "steered"
    /\ UNCHANGED <<motor, wheels, rot_duration>>
    /\ RotateFrame

\* px.set_motor_speed(1, +-speed)
RotateLeftMotor ==
    /\ prog = "rotate" /\ ppc = "steered"
    /\ wheels' = [wheels EXCEPT ![1] = IF call.angle > 0 THEN call.speed ELSE -call.speed]
    /\ motor' = "wheel"
    /\ ppc' = "left_set"
    /\ UNCHANGED <<call, px_dir_servo, servo_angles, rot_duration>>
    /\ RotateFrame

\* px.set_motor_speed(2, -+speed); the duration is computed; time.sleep(duration)
RotateRightMotor ==
    /\ prog = "rotate" /\ ppc = "left_set"
    /\ wheels' = [wheels EXCEPT ![2] = IF call.angle > 0 THEN -call.speed ELSE call.speed]
    /\ rot_duration' = RotateDuration(call.angle, call.speed)
    /\ ppc' = "sleeping"
    /\ UNCHANGED <<call, motor, px_dir_servo, servo_angles>>
    /\ RotateFrame

\* px.stop()
RotateStop ==
    /\ prog = "rotate" /\ ppc = "sleeping"
    /\ wheels' = <<0, 0>>
    /\ motor' = "stop"
    /\ ppc' = "stopped"
    /\ UNCHANGED <<call, px_dir_servo, servo_angles, rot_duration>>
    /\ RotateFrame

\* px.set_dir_servo_angle(0); _servo_angles['dir_servo'] = 0; return True
RotateReturns ==
    /\ prog = "rotate" /\ ppc = "stopped"
    /\ px_dir_servo' = 0 /\ servo_angles' = 0
    /\ ppc' = "idle"
    /\ UNCHANGED <<call, motor, wheels, rot_duration>>
    /\ RotateFrame


\* ======================================================================
\* init_camera of ruthwika/primitives.py, Final/final_primitives.py and
\* picarx_primitives.py
\* ======================================================================
CameraProgs == { "camera_ruthwika", "camera_final", "camera_picarx" }

\* timeout = 5.0 (seconds) in ruthwika/primitives.py; the other two have none
CAMERA_TIMEOUT == 5
HasTimeout(p) == p = "camera_ruthwika"

\* what init_camera leaves alone
CameraFrame ==
    UNCHANGED <<prog, agentvars, hw_error_at, gray, seqvars, monvars, histvars, navvars, hwvars, continuous_movement,
                cam_angles, px_cam, wheel_speed, wheels, rot_duration>>

\* the call up to the wait loop: the initialized test, Vilib.camera_start and
\* Vilib.display (which may raise); the camera then comes up or never does
InitCameraStart ==
    /\ prog \in CameraProgs /\ ppc = "idle"
    /\ call' = PrimCall("init_camera", 0, 0, None)
    /\ IF vilib_initialized
       THEN /\ cam_result' = "already_initialized"
            /\ UNCHANGED <<ppc, flask_start, cam_wait>>
       ELSE \/ /\ cam_result' = "error"
               /\ UNCHANGED <<ppc, flask_start, cam_wait>>
            \/ /\ flask_start' \in BOOLEAN
               /\ cam_wait' = 0
               /\ cam_result' = "none"
               /\ ppc' = "cam_check"
    /\ UNCHANGED vilib_initialized
    /\ CameraFrame

\* one pass of the wait loop: the loop test and "if ... Vilib.flask_start"
InitCameraCheck ==
    /\ prog \in CameraProgs /\ ppc = "cam_check"
    /\ IF HasTimeout(prog) /\ ~(cam_wait < CAMERA_TIMEOUT)
       THEN /\ cam_result' = "timeout" /\ ppc' = "idle"
            /\ UNCHANGED vilib_initialized
       ELSE IF flask_start
       THEN /\ vilib_initialized' = TRUE
            /\ cam_result' = "success" /\ ppc' = "idle"
       ELSE /\ ppc' = "cam_sleep"
            /\ UNCHANGED <<vilib_initialized, cam_result>>
    /\ UNCHANGED <<call, flask_start, cam_wait>>
    /\ CameraFrame

\* time.sleep(0.01) of the wait loop; only the loop with a timeout reads the clock
InitCameraSleep ==
    /\ prog \in CameraProgs /\ ppc = "cam_sleep"
    /\ cam_wait' = IF HasTimeout(prog) THEN cam_wait + 1 ELSE cam_wait
    /\ ppc' = "cam_check"
    /\ UNCHANGED <<call, flask_start, vilib_initialized, cam_result>>
    /\ CameraFrame

\* ======================================================================
HwInit ==
    /\ motor = "stop" /\ motor_speed = 0 /\ cali_dir_value = <<1, 1>>
    /\ px_dir_servo = 0 /\ servo_angles = 0
    /\ gray = ClearGray
    /\ ppc = "idle" /\ call = NoCall /\ continuous_movement = FALSE
    /\ cam_angles = [pan |-> 0, tilt |-> 0] /\ px_cam = [pan |-> 0, tilt |-> 0]
    /\ wheel_speed = 0
    /\ wheels = <<0, 0>> /\ rot_duration = 0
    /\ cam_wait = 0 /\ vilib_initialized = FALSE /\ cam_result = "none"

SeqInit ==
    /\ mpc = "for" /\ batch = 1 /\ i = 0
    /\ cur = NoCommand /\ boundary_hit = FALSE /\ last_action = NoAction
    /\ execution_log = <<>> /\ successful_commands = 0 /\ brk = FALSE
    /\ result = "none" /\ correction = -1 /\ elapsed = 0
    /\ grayscale_thread = "none" /\ stop_grayscale_monitoring = FALSE
    /\ grayscale_monitoring = FALSE /\ sample = ClearGray
    /\ boundary_log = [last_action |-> NoAction, grayscale_values |-> ClearGray]
    /\ dispatched = {} /\ raised_during = {} /\ trip_in_cmd = FALSE
    /\ trip_stop_issued = FALSE /\ dropped_in_cmd = FALSE /\ sampled_in = NoAction
    /\ hw_error_at = -1
    /\ gpc = "start" /\ iteration = 0 /\ plan_distance = None /\ plan_result = "none"
    /\ attempt_count = 0 /\ oa_current_distance = 0 /\ navigation_active = FALSE
    /\ distance_result = [kind |-> "error", neg |-> FALSE, mag |-> 0]
    /\ nav_result = "none"

NavInit ==
    /\ apc = "loop" /\ step_count = 0
    /\ us_text = GetUltrasonicDistance(None) /\ ultrasonic_distance = None
    /\ vision_distance = None /\ current_distance = 0 /\ distance_source = "none"
    /\ step_size = 0 /\ a_result = "none" /\ fallback_run = 0
    /\ cpc = "loop" /\ attempt = 0 /\ retry = 0 /\ reply = NoReply /\ fresh_reply = NoReply
    /\ turn_instructions = EmptyInstructions
    /\ turn_direction = "none" /\ turn_angle = 0 /\ turn_duration = 0
    /\ position = "center" /\ logic_error = FALSE /\ acted = "none"
    /\ turn_issued = "none" /\ c_result = "none"

\* the maze programs: a batch of 1..MaxCmds commands is about to be executed
Init ==
    /\ flask_start = FALSE
    /\ prog \in {"maze", "simple"}
    /\ ncmds \in 1..MaxCmds
    /\ stop_distance = 0
    /\ HwInit /\ SeqInit /\ NavInit

\* the navigation agent: centering, or an approach to one of the stand-off distances
InitNav ==
    /\ flask_start = FALSE
    /\ prog \in {"center", "approach"}
    /\ ncmds = 0
    /\ stop_distance \in (IF prog = "approach" THEN StopDistances ELSE {0})
    /\ HwInit /\ SeqInit /\ NavInit

\* approach_object_slowly driven by a synthetic rangefinder sequence
InitDescent ==
    /\ flask_start = FALSE
    /\ prog = "descent"
    /\ ncmds = 0
    /\ stop_distance \in StopDistances
    /\ HwInit /\ SeqInit /\ NavInit

vars == <<prog, hw_error_at, agentvars, hwvars, gray, seqvars, monvars, histvars, navvars, primvars>>

Next ==
    \/ MazeFor \/ StartGrayscaleMonitoring \/ ExecuteSingleCommand \/ PrimitiveReturns
    \/ MazeAfterCommand \/ StopGrayscaleMonitoring \/ MazePause \/ MazeAfterLoop
    \/ MazeNextBatch
    \/ MonitorSample \/ MonitorRaise \/ MonitorStop \/ MonitorLog \/ MonitorRunSync \/ MonitorCooldown
    \/ MonitorSleep
    \/ SimpleFor \/ SimpleExec \/ SimplePoll \/ SimpleTurning \/ LineDrop
    \/ SimpleAfterCommand \/ SimpleFinally \/ SimpleAfterLoop \/ SimpleNextBatch

Spec == Init /\ [][Next]_vars

\* one call of execute_command_list, or the batches of run_maze_navigation, on
\* hardware whose px calls may raise
InitHw ==
    /\ flask_start = FALSE
    /\ prog \in {"maze_hw", "simple_hw"}
    /\ ncmds \in 1..MaxCmds
    /\ stop_distance = 0
    /\ HwInit /\ SeqInit /\ NavInit

NextHw ==
    \/ MazeFor \/ StartGrayscaleMonitoring \/ ExecuteSingleCommand \/ PrimitiveReturns
    \/ PrimitiveRaises \/ PrimitiveStopRaises
    \/ MazeAfterCommand \/ StopGrayscaleMonitoring \/ MazePause \/ MazeAfterLoop
    \/ SimpleFor \/ SimpleExec \/ SimplePoll \/ SimpleTurning \/ LineDrop \/ SimpleRaises
    \/ SimpleAfterCommand \/ SimpleFinally \/ SimpleAfterLoop \/ SimpleNextBatch
    \/ MonitorSample \/ MonitorRaise \/ MonitorStop \/ MonitorLog \/ MonitorRunSync \/ MonitorCooldown
    \/ MonitorSleep

SpecHw == InitHw /\ [][NextHw]_vars

\* the monitor of MazeNavigationAgent armed and disarmed in any order
InitMonitor ==
    /\ flask_start = FALSE
    /\ prog = "monitor"
    /\ ncmds = 0 /\ stop_distance = 0
    /\ HwInit /\ SeqInit /\ NavInit

NextMonitor ==
    \/ CallStartMonitoring \/ CallStopMonitoring \/ CallerClearsBoundaryHit
    \/ MonitorSample \/ MonitorRaise \/ MonitorStop \/ MonitorLog \/ MonitorRunSync \/ MonitorCooldown
    \/ MonitorSleep

SpecMonitor == InitMonitor /\ [][NextMonitor]_vars

\* the daemon thread is scheduled, and each of its sleeps and calls returns
FairSpecMonitor == SpecMonitor /\ WF_vars(MonitorThread)

NextNav ==
    \/ ApproachLoop \/ ApproachMeasure \/ ApproachDecide \/ ApproachMoveReturns
    \/ CenterLoop \/ CenterRequest \/ CenterDecide \/ CenterFresh \/ CenterTurn
    \/ CenterTurnReturns

SpecNav == InitNav /\ [][NextNav]_vars

\* a caller of ruthwika/primitives.py
InitPrims ==
    /\ flask_start = FALSE
    /\ prog = "prims"
    /\ ncmds = 0 /\ stop_distance = 0
    /\ HwInit /\ SeqInit /\ NavInit

NextPrims ==
    \/ PrimReset
    \/ PrimStop
    \/ PrimReturns
    \/ \E speed \in PrimSpeeds, duration \in PrimDurations : PrimMoveForward(speed, duration)
    \/ \E speed \in PrimSpeeds, duration \in PrimDurations : PrimMoveBackward(speed, duration)
    \/ \E fn \in {"turn_left", "turn_right"}, angle \in PrimAngles, speed \in PrimSpeeds,
          duration \in PrimDurations : PrimTurn(fn, angle, speed, duration)
    \/ \E fn \in {"turn_in_place_left", "turn_in_place_right"}, angle \in InPlaceAngles,
          speed \in PrimSpeeds, duration \in PrimDurations :
            PrimTurnInPlace(fn, angle, speed, duration)
    \/ \E motor_id \in MotorIds, speed \in PrimSpeeds : PrimSetMotorSpeed(motor_id, speed)
    \/ \E angle \in PrimAngles : PrimSetDirServoAngle(angle)
    \/ \E axis \in {"pan", "tilt"}, angle \in PrimCamAngles : PrimSetCamAngle(axis, angle)

SpecPrims == InitPrims /\ [][NextPrims]_vars

\* ======================================================================
\* picarx_agent_smart.py : PicarXSmartAgent.execute_adaptive_plan
\* ======================================================================
MAX_ITERATIONS == 20
TARGET_REACHED == 250
VISUAL_AFTER == 5

\* what px.ultrasonic.read() returns, in tenths of a cm: -1, 0, 15.3, 25, 25.1, 100
UltrasoundReadings == { -10, 0, 153, 250, 251, 1000 }

\* "if distance and distance <= 25" (line 666); "distance" is true when it is
\* neither None nor 0
TargetReached(d) == d # None /\ d # 0 /\ d <= TARGET_REACHED

\* max_iterations = 20; iteration = 0
AdaptiveStart ==
    /\ prog = "adaptive" /\ gpc = "start"
    /\ iteration' = 0
    /\ gpc' = "loop"
    /\ UNCHANGED <<prog, hw_error_at, plan_distance, plan_result, attempt_count,
                   distance_result, oa_current_distance, navigation_active, nav_result,
                   hwvars, gray, seqvars, monvars, histvars, navvars, primvars>>

\* while iteration < max_iterations: iteration += 1; photo and analysis
AdaptiveLoop ==
    /\ prog = "adaptive" /\ gpc = "loop"
    /\ IF iteration < MAX_ITERATIONS
       THEN iteration' = iteration + 1 /\ gpc' = "read" /\ UNCHANGED plan_result
       ELSE plan_result' = "completed_after_max" /\ gpc' = "done" /\ UNCHANGED iteration
    /\ UNCHANGED <<prog, hw_error_at, plan_distance, attempt_count, distance_result,
                   oa_current_distance, navigation_active, nav_result, hwvars, gray, seqvars,
                   monvars, histvars, navvars, primvars>>

\* try: distance = get_ultrasound()  except: distance = None
AdaptiveRead ==
    /\ prog = "adaptive" /\ gpc = "read"
    /\ \E d \in UltrasoundReadings \cup {None} : plan_distance' = d
    /\ gpc' = "decide"
    /\ UNCHANGED <<prog, hw_error_at, iteration, plan_result, attempt_count, distance_result,
                   oa_current_distance, navigation_active, nav_result, hwvars, gray, seqvars,
                   monvars, histvars, navvars, primvars>>

\* steps 3 and 4: target reached, visual estimation, or drive_forward
AdaptiveDecide ==
    /\ prog = "adaptive" /\ gpc = "decide"
    /\ IF TargetReached(plan_distance)
       THEN /\ plan_result' = "mission_accomplished" /\ gpc' = "done"
            /\ UNCHANGED <<motor, motor_speed>>
       \* "not distance or distance <= 0" (lines 671, 681)
       ELSE IF /\ iteration >= VISUAL_AFTER
               /\ (plan_distance = None \/ plan_distance = 0 \/ plan_distance <= 0)
       THEN /\ plan_result' = "visual_estimation" /\ gpc' = "done"
            /\ UNCHANGED <<motor, motor_speed>>
       ELSE IF plan_distance = None \/ plan_distance = 0 \/ plan_distance <= 0
       THEN /\ motor' = "forward" /\ motor_speed' = 20 /\ gpc' = "moving"
            /\ UNCHANGED plan_result
       ELSE IF plan_distance > TARGET_REACHED
       THEN /\ motor' = "forward" /\ motor_speed' = 30 /\ gpc' = "moving"
            /\ UNCHANGED plan_result
       ELSE /\ gpc' = "loop"
            /\ UNCHANGED <<motor, motor_speed, plan_result>>
    /\ UNCHANGED <<prog, hw_error_at, iteration, plan_distance, attempt_count, distance_result,
                   oa_current_distance, navigation_active, nav_result, cali_dir_value,
                   px_dir_servo, servo_angles, gray, seqvars, monvars, histvars, navvars,
                   primvars>>

\* drive_forward's sleep ends: px.stop(); stop(); time.sleep(1)
AdaptiveMoveReturns ==
    /\ prog = "adaptive" /\ gpc = "moving"
    /\ motor' = "stop"
    /\ gpc' = "loop"
    /\ UNCHANGED <<prog, hw_error_at, iteration, plan_distance, plan_result, attempt_count,
                   distance_result, oa_current_distance, navigation_active, nav_result,
                   motor_speed, cali_dir_value, px_dir_servo, servo_angles, gray, seqvars,
                   monvars, histvars, navvars, primvars>>

\* ======================================================================
\* ruthwika/obstacle_avoidance_agent.py : navigate_around_obstacles
\* ======================================================================
OA_MAX_ATTEMPTS == 50
FAR_DEFAULT == 9990
SUCCESS_BELOW == 200
SAFETY_BELOW == 50
FAR_ABOVE == 500

Word(txt) == [isnum |-> FALSE, txt |-> txt, num |-> 0]

\* distance_result.split(): the words of "Ultrasound detected an obstacle at
\* 12.3 cm", or of "Ultrasonic sensor error: timeout"
SplitWords(text) ==
    IF text.kind = "reading"
    THEN << Word("Ultrasound"), Word("detected"), Word("an"), Word("obstacle"), Word("at"),
            [isnum |-> TRUE, txt |-> "", num |-> UltrasonicMatch(text)], Word("cm") >>
    ELSE << Word("Ultrasonic"), Word("sensor"), Word("error:"), Word("timeout") >>

\* try: float(distance_result.split()[4])  except (IndexError, ValueError): 999.0
\* (Python's index 4 is the fifth word)
ExtractDistance(text) ==
    LET words == SplitWords(text)
    IN  IF Len(words) < 5 THEN FAR_DEFAULT
        ELSE IF words[5].isnum THEN words[5].num
        ELSE FAR_DEFAULT

\* navigation_active = True; attempt_count = 0; reset(); analyze_surroundings
ObstacleStart ==
    /\ prog = "obstacle" /\ gpc = "start"
    /\ navigation_active' = TRUE /\ attempt_count' = 0
    /\ motor' = "stop" /\ px_dir_servo' = 0 /\ servo_angles' = 0
    /\ gpc' = "loop"
    /\ UNCHANGED <<prog, hw_error_at, iteration, plan_distance, plan_result, distance_result,
                   oa_current_distance, nav_result, motor_speed, cali_dir_value, gray,
                   seqvars, monvars, histvars, navvars, primvars>>

\* while self.navigation_active and self.attempt_count < self.max_attempts
ObstacleLoop ==
    /\ prog = "obstacle" /\ gpc = "loop"
    /\ IF navigation_active /\ attempt_count < OA_MAX_ATTEMPTS
       THEN /\ attempt_count' = attempt_count + 1 /\ gpc' = "read"
            /\ UNCHANGED <<navigation_active, nav_result>>
       ELSE /\ navigation_active' = FALSE /\ nav_result' = "timeout" /\ gpc' = "done"
            /\ UNCHANGED attempt_count
    /\ UNCHANGED <<prog, hw_error_at, iteration, plan_distance, plan_result, distance_result,
                   oa_current_distance, hwvars, gray, seqvars, monvars, histvars, navvars,
                   primvars>>

\* distance_result = get_ultrasonic_distance(); extract current_distance
ObstacleRead ==
    /\ prog = "obstacle" /\ gpc = "read"
    /\ \E raw \in RawRangeSamples :
         /\ distance_result' = GetUltrasonicDistance(raw)
         /\ oa_current_distance' = ExtractDistance(GetUltrasonicDistance(raw))
    /\ gpc' = "decide"
    /\ UNCHANGED <<prog, hw_error_at, iteration, plan_distance, plan_result, attempt_count,
                   navigation_active, nav_result, hwvars, gray, seqvars, monvars, histvars,
                   navvars, primvars>>

\* success band, safety stop, or move_forward(speed, duration, check_obstacles=True)
ObstacleDecide ==
    /\ prog = "obstacle" /\ gpc = "decide"
    /\ IF oa_current_distance < SUCCESS_BELOW /\ oa_current_distance > SAFETY_BELOW
       THEN /\ motor' = "stop" /\ navigation_active' = FALSE
            /\ nav_result' = "success" /\ gpc' = "done"
            /\ UNCHANGED <<motor_speed, servo_angles>>
       ELSE IF oa_current_distance < SAFETY_BELOW
       THEN /\ motor' = "stop" /\ navigation_active' = FALSE
            /\ nav_result' = "safety_stop" /\ gpc' = "done"
            /\ UNCHANGED <<motor_speed, servo_angles>>
       ELSE /\ motor' = "forward"
            /\ motor_speed' = IF oa_current_distance > FAR_ABOVE THEN 40
                               ELSE IF oa_current_distance > SUCCESS_BELOW THEN 25
                               ELSE 15
            /\ servo_angles' = 0
            /\ gpc' = "moving"
            /\ UNCHANGED <<navigation_active, nav_result>>
    /\ UNCHANGED <<prog, hw_error_at, iteration, plan_distance, plan_result, attempt_count,
                   distance_result, oa_current_distance, cali_dir_value, px_dir_servo, gray,
                   seqvars, monvars, histvars, navvars, primvars>>

\* move_forward returns: in full, or "stopped early" followed by _avoid_obstacle,
\* which turns the car away or fails
ObstacleMoveReturns ==
    /\ prog = "obstacle" /\ gpc = "moving"
    /\ motor' = "stop"
    /\ \E outcome \in {"moved", "avoided", "avoidance_failed"} :
         IF outcome = "avoidance_failed"
         THEN navigation_active' = FALSE /\ nav_result' = "failed" /\ gpc' = "done"
         ELSE gpc' = "loop" /\ UNCHANGED <<navigation_active, nav_result>>
    /\ UNCHANGED <<prog, hw_error_at, iteration, plan_distance, plan_result, attempt_count,
                   distance_result, oa_current_distance, motor_speed, cali_dir_value,
                   px_dir_servo, servo_angles, gray, seqvars, monvars, histvars, navvars,
                   primvars>>

\* one run of execute_adaptive_plan, or of navigate_around_obstacles
InitAgents ==
    /\ flask_start = FALSE
    /\ prog \in {"adaptive", "obstacle"}
    /\ ncmds = 0 /\ stop_distance = 0
    /\ HwInit /\ SeqInit /\ NavInit

NextAgents ==
    \/ AdaptiveStart \/ AdaptiveLoop \/ AdaptiveRead \/ AdaptiveDecide \/ AdaptiveMoveReturns
    \/ ObstacleStart \/ ObstacleLoop \/ ObstacleRead \/ ObstacleDecide \/ ObstacleMoveReturns

SpecAgents == InitAgents /\ [][NextAgents]_vars


\* a caller of picarx_primitives.rotate_in_place, or of one module's init_camera
InitCalls ==
    /\ prog \in { "rotate" } \cup CameraProgs
    /\ flask_start = FALSE
    /\ ncmds = 0 /\ stop_distance = 0
    /\ HwInit /\ SeqInit /\ NavInit

NextCalls ==
    \/ \E degrees \in RotateDegrees, speed \in RotateSpeeds : RotateSteer(degrees, speed)
    \/ RotateLeftMotor \/ RotateRightMotor \/ RotateStop \/ RotateReturns
    \/ InitCameraStart \/ InitCameraCheck \/ InitCameraSleep

SpecCalls == InitCalls /\ [][NextCalls]_vars

\* the caller is one thread: a step it can take is taken
FairSpecCalls == SpecCalls /\ WF_vars(NextCalls)

NextDescent ==
    \/ ApproachLoop \/ ApproachMeasure \/ ApproachDecide \/ ApproachMoveReturns

SpecDescent == InitDescent /\ [][NextDescent]_vars

\* each controller is one sequential loop: a step that can be taken is taken
FairSpecNav == SpecNav /\ WF_vars(NextNav)


\* ======================================================================
\* Properties
\* ======================================================================
SeveralCycles == 3

\* C1: once the boundary alert was raised while command k of a batch was executing,
\* no command with a larger index is dispatched in that batch (both sequencers).
C1_NoDispatchAfterAlert ==
    \A k \in raised_during : \A j \in dispatched : j <= k

\* a batch ended after an alert with commands of the list left undispatched
C1_Witness ==
    /\ prog = "maze" /\ mpc = "done"
    /\ raised_during # {}
    /\ Cardinality(dispatched) < ncmds

\* C2: when the monitor thread is past a sample below the threshold and in its
\* cooldown, it has issued stop() to the motors for that sample.
C2_MonitorStopsBeforeCooldown ==
    (prog \in MonitorProgs /\ grayscale_thread = "cooldown") => trip_stop_issued

\* C3: from the monitor's trip during a sequencer command until the command
\* returns, the drive motors are not running.
C3_MonitorStopWins ==
    (prog = "maze" /\ trip_in_cmd /\ mpc \in {"dispatch", "in_flight"}) => motor = "stop"

\* C4: while a command is being dispatched, a polling thread is alive and not
\* flagged to stop.
C4_MonitorArmedDuringDispatch ==
    (prog = "maze" /\ mpc \in {"dispatch", "in_flight"})
        => (IsAlive(grayscale_thread) /\ ~stop_grayscale_monitoring)

\* C5: a movement command of SimpleMazeAgent during which the line sensors dropped
\* below the threshold returns early, motors stopped, with boundary_hit set.
C5_MovementCancellable ==
    (/\ prog = "simple" /\ mpc = "returned"
     /\ cur.action \in MovementActions
     /\ dropped_in_cmd
     /\ AnyBelow(gray, FORWARD_BLACK_LINE_THRESHOLD))
        => (boundary_hit /\ motor = "stop" /\ elapsed < DurationTicks)

\* C6: the log entry of a command during which the monitor raised boundary_hit has
\* boundary_hit = true and success = false, and get_course_correction finds it.
C6_LogEntryRecordsBoundaryHit ==
    (prog = "maze" /\ mpc = "finally" /\ i \in raised_during)
        => (LET e == execution_log[Len(execution_log)]
            IN  /\ e.boundary_hit /\ ~e.success
                /\ GetCourseCorrection(execution_log) = i)

\* C7: after several consecutive fallback cycles the approach controller does not
\* drive forward any more.
C7_FallbackStopsForwardDrive ==
    (prog = "approach" /\ fallback_run >= SeveralCycles) => apc # "moving"

\* the number get_ultrasonic_distance() reported, None for its error text
ReportedRange ==
    IF us_text.kind = "reading"
    THEN (IF us_text.neg THEN -us_text.mag ELSE us_text.mag)
    ELSE None

\* C8: the distance of an approach cycle is the reported rangefinder value when it
\* lies in [2,400] cm, else the vision estimate when it lies in [2,500] cm, else the
\* 10 cm fallback; -1 with a vision estimate of 42 cm gives 42 from vision.
C8_FusionPriority ==
    (prog = "approach" /\ distance_source # "none") =>
        /\ IF ReportedRange # None /\ 20 <= ReportedRange /\ ReportedRange <= 4000
           THEN current_distance = ReportedRange /\ distance_source = "ultrasonic"
           ELSE IF vision_distance # None /\ 20 <= vision_distance /\ vision_distance <= 5000
           THEN current_distance = vision_distance /\ distance_source = "vision"
           ELSE current_distance = 100 /\ distance_source = "fallback"
        /\ (distance_source = "ultrasonic" => current_distance \in 20..4000)

\* the rangefinder reports -1.0 cm and the vision estimate is 42 cm
C8_Witness ==
    /\ prog = "approach" /\ apc = "decide"
    /\ us_text = [kind |-> "reading", neg |-> TRUE, mag |-> 10]
    /\ vision_distance = 420
    /\ current_distance = 420 /\ distance_source = "vision"

CenterResults ==
    { "centered", "no_turn_needed", "incomplete", "failed_no_image_path",
      "failed_no_valid_instructions", "failed_not_visible", "failed_low_confidence",
      "failed_invalid_turn" }
ApproachResults == { "success", "success_very_close", "incomplete", "no_image_path" }

\* C9: centering makes at most 50 attempts and the approach at most 20 steps, and
\* each ends with an explicit success, failure or incomplete result.
C9_BoundedLoopsTerminate ==
    /\ [](attempt <= MAX_ATTEMPTS /\ step_count <= MAX_STEPS)
    /\ [](cpc = "done" => c_result \in CenterResults)
    /\ [](apc = "done" => a_result \in ApproachResults)
    /\ <>((prog = "center" /\ cpc = "done") \/ (prog = "approach" /\ apc = "done"))

\* the centering loop ran into its cap of 50 attempts
C9_Witness ==
    prog = "center" /\ cpc = "done" /\ c_result = "incomplete" /\ attempt = MAX_ATTEMPTS

\* a reply with every required field and without refusal boilerplate
ValidReply(r) == r.kind = "text" /\ r.absent = {} /\ ~r.boilerplate

\* C10: a turn primitive is only issued on a reply that has every required field
\* and no non-answer boilerplate.
C10_NoTurnOnInvalidReply ==
    (prog = "center" /\ turn_issued # "none")
        => ValidReply(IF acted = "fresh" THEN fresh_reply ELSE reply)

\* results center_target_until_centered returns with the success mark
CenterSuccessResults == { "centered", "no_turn_needed" }

\* the reply whose instruction the controller went on with in this attempt
ActedReply == IF acted = "fresh" THEN fresh_reply ELSE reply

\* C11: every instruction on which the centering controller issues a turn or
\* returns success has confidence >= 5, the instruction of the fresh re-capture
\* included.
C11_ActsOnlyOnConfident ==
    (/\ prog = "center"
     /\ \/ turn_issued # "none"
        \/ cpc = "done" /\ c_result \in CenterSuccessResults)
        => Get(ParseCenteringInstructions(ActedReply), "CONFIDENCE", "confidence", 5) >= 5

\* C12: a turn issued while the position acted on is left or right goes toward
\* that side; a contradicting direction is inverted to match the position.
C12_TurnMatchesPosition ==
    (prog = "center" /\ turn_issued # "none")
        => /\ position = "right" => turn_issued = "turn_in_place_right"
           /\ position = "left"  => turn_issued = "turn_in_place_left"

\* the fresh re-check was inconsistent too and the left turn was inverted
C12_Witness ==
    /\ prog = "center" /\ cpc = "turning"
    /\ fresh_reply.kind = "text"
    /\ logic_error /\ turn_direction = "left" /\ position = "right"
    /\ turn_issued = "turn_in_place_right"

\* C13: center_target_until_centered returns a success result only in an attempt
\* whose instruction had centered == true.
C13_SuccessOnlyWhenCentered ==
    (prog = "center" /\ cpc = "done" /\ c_result \in CenterSuccessResults)
        => Get(turn_instructions, "CENTERED", "centered", FALSE)

\* the smallest step of the approach, 1.0 cm, in tenths of a cm
StepTolerance == 10

C15_StoredAnglesAndSpeedsInRange ==
    (prog = "prims") =>
        /\ servo_angles \in -30..30
        /\ cam_angles.pan \in -35..35 /\ cam_angles.tilt \in -35..35
        /\ motor_speed \in 0..100
        /\ wheel_speed \in 0..100

\* C15 amended: the stored angles are within their ranges, every speed passed to
\* px.forward / px.backward is within [0,100], the signed speed set_motor_speed
\* passes to one wheel is within [-100,100]; out-of-range inputs are clamped:
\* speed 150 gives 100, speed -20 gives 0, steering 50 gives 30, pan 60 gives 35.
C15_ClampedStoredAnglesAndSpeeds ==
    (prog = "prims") =>
        /\ servo_angles \in -30..30 /\ px_dir_servo \in -30..30
        /\ cam_angles.pan \in -35..35 /\ cam_angles.tilt \in -35..35
        /\ motor_speed \in 0..100
        /\ wheel_speed \in -100..100
        /\ (call.fn \in MotionPrimitives /\ call.speed = 150) => motor_speed = 100
        /\ (call.fn \in MotionPrimitives /\ call.speed = -20) => motor_speed = 0
        /\ (call.fn = "set_dir_servo_angle" /\ call.angle = 50) => servo_angles = 30
        /\ (call.fn = "set_cam_pan_angle" /\ call.angle = 60) => cam_angles.pan = 35
        /\ (call.fn = "set_motor_speed" /\ call.speed = -20) => wheel_speed = -20

\* move_forward(150), set_dir_servo_angle(50) and set_cam_pan_angle(60) were called
C15_Witness ==
    /\ prog = "prims"
    /\ call = PrimCall("set_cam_pan_angle", 60, 0, None)
    /\ motor_speed = 100 /\ servo_angles = 30 /\ cam_angles.pan = 35

\* C17: a ruthwika motion primitive has returned with the motors running if and
\* only if its duration argument was omitted.
C17_RunningIffDurationOmitted ==
    (prog = "prims" /\ ppc = "idle" /\ call.fn \in MotionPrimitives)
        => ((motor # "stop") <=> (call.duration = None))

\* C16: on the maze sequencer path the speed that reaches the motors is within
\* [0,100] and every steering angle sent to the servo or stored in _servo_angles
\* is within [-30,30].
C16_SequencerClampsSpeedAndAngle ==
    (prog \in {"maze", "simple"}) =>
        /\ motor_speed \in 0..100
        /\ px_dir_servo \in -30..30
        /\ servo_angles \in -30..30

\* C18: rotate_in_place with non-zero degrees derives a duration > 0, drives the
\* two wheels with opposite-sign speeds, holds the steering at +30 for positive
\* and -30 for negative degrees while rotating, and returns with the motors
\* stopped and the steering at 0.
C18_RotateInPlace ==
    (prog = "rotate" /\ call.fn = "rotate_in_place" /\ call.angle # 0) =>
        /\ ppc \in {"steered", "left_set", "sleeping"} =>
              /\ px_dir_servo = (IF call.angle > 0 THEN 30 ELSE -30)
              /\ servo_angles = px_dir_servo
        /\ ppc = "sleeping" =>
              /\ rot_duration > 0
              /\ wheels[1] * wheels[2] < 0
              /\ wheels[1] = (IF call.angle > 0 THEN call.speed ELSE -call.speed)
        /\ ppc = "idle" =>
              /\ motor = "stop" /\ wheels = <<0, 0>>
              /\ px_dir_servo = 0 /\ servo_angles = 0

\* rotate_in_place(90, 50) is rotating: 600 ms, wheels +50 / -50, steering +30
C18_Witness ==
    /\ prog = "rotate" /\ ppc = "sleeping"
    /\ call = PrimCall("rotate_in_place", 90, 50, None)
    /\ rot_duration = 600 /\ wheels = <<50, -50>> /\ px_dir_servo = 30

\* C19: in every primitives module a call of init_camera returns, also when the
\* camera never reports ready.
C19_InitCameraReturns ==
    (prog \in CameraProgs /\ ppc # "idle") ~> (ppc = "idle")

\* C20: stop_grayscale_monitoring() can be called in every state of the
\* monitor (never armed, polling, tripped and in its cooldown, after one
\* call or several), it never waits for the thread, and once the event is
\* set the monitor thread ends
C20_DisarmEndsMonitor ==
    /\ [](prog = "monitor" => ENABLED CallStopMonitoring)
    /\ (prog = "monitor" /\ stop_grayscale_monitoring) ~> ~IsAlive(grayscale_thread)

\* disarmed while the thread is in the cooldown that follows a trip
C20_Witness ==
    /\ prog = "monitor" /\ stop_grayscale_monitoring /\ ~grayscale_monitoring
    /\ grayscale_thread = "cooldown" /\ boundary_hit

\* C21: the monitor thread only reads the line sensors, writes the alert
\* flag and calls stop(); it is never inside a camera, vision or
\* language-model call
C21_MonitorMakesNoModelCall ==
    prog = "maze" => grayscale_thread # "run_sync"

\* C22: the last_action recorded in the boundary log is the command that
\* was in flight when the monitor took the tripping sample
C22_LogNamesCommandInFlight ==
    [][(prog = "maze" /\ MonitorLog /\ sampled_in # NoAction)
           => boundary_log'.last_action = sampled_in]_vars

\* C23: when a primitive raises a hardware exception during a command of
\* execute_command_list, that command's log entry has success = false and no
\* later command of the batch is dispatched
C23_HardwareErrorAborts ==
    (prog = "maze_hw" /\ hw_error_at >= 0)
        => /\ \A k \in dispatched : k <= hw_error_at
           /\ Len(execution_log) > hw_error_at
                  => ~execution_log[hw_error_at + 1].success

\* C24: every forward step approach_object_slowly commands is no longer than
\* the remaining distance to the stand-off (both in thousandths of a cm)
C24_StepWithinRemaining ==
    (prog = "approach" /\ apc = "moving")
        => step_size <= (current_distance - stop_distance) * 100

\* C26: approach_object_slowly never reports a successful approach in a cycle
\* whose distance source is the fallback
C26_NoSuccessOnFallback ==
    (prog = "approach" /\ a_result \in {"success", "success_very_close"})
        => distance_source # "fallback"

\* C25: whenever stop(), reset() or a primitive called with a duration has
\* returned, the wheel-direction calibration px.cali_dir_value is [1,1]
C25_CalibrationRestored ==
    (prog = "prims" /\ ppc = "idle"
       /\ (call.fn \in {"stop", "reset"}
             \/ (call.fn \in MotionPrimitives /\ call.duration # None)))
        => cali_dir_value = <<1, 1>>

\* C27: execute_adaptive_plan declares the target distance reached only on a
\* valid ultrasound reading, 0 < d <= 25 cm
C27_ReachedOnlyOnValidReading ==
    (prog = "adaptive" /\ plan_result = "mission_accomplished")
        => (0 < plan_distance /\ plan_distance <= TARGET_REACHED)

\* C29: in navigate_around_obstacles, whenever get_ultrasonic_distance
\* succeeded with value d the loop's current_distance is d, and the car
\* drives on only if d is outside the success band and the safety band
C29_CurrentDistanceIsReading ==
    (prog = "obstacle" /\ distance_result.kind = "reading")
        => /\ oa_current_distance = UltrasonicMatch(distance_result)
           /\ gpc = "moving" => \/ UltrasonicMatch(distance_result) >= SUCCESS_BELOW
                                 \/ UltrasonicMatch(distance_result) = SAFETY_BELOW

\* C28: execute_commands_with_monitoring returns success = true only if every
\* command of the list was executed and logged with success = true
C28_BatchSuccessMeansAllSucceeded ==
    (prog = "simple_hw" /\ result = "all_executed")
        => /\ Len(execution_log) = ncmds
           /\ \A k \in 1..Len(execution_log) : execution_log[k].success

\* C30: after every primitive call has returned, the tracked steering angle
\* _servo_angles['dir_servo'] equals the angle last commanded to the steering servo
C30_TrackedAngleIsCommanded ==
    (prog = "prims" /\ ppc = "idle") => servo_angles = px_dir_servo

====
